---- MODULE Spec2Model ----
(***************************************************************************)
(* Verification model of the gastric-scan-next dashboard.                  *)
(*                                                                         *)
(* Part I  : the peritumoral ring generator of lib/morphology.ts           *)
(*           (generatePeritumoralRingFromAnnotation, generatePeritumoral-  *)
(*           Ring): mask construction, seed scan, BFS dilation, painting.  *)
(* Part II : the ring life cycle of components/UltrasoundViewer.tsx as     *)
(*           mounted by the Home page (key = selected patient id).         *)
(***************************************************************************)
EXTENDS Integers, Sequences, FiniteSets, TLC

\* ------------------------------------------------------------------ bounds
\* Largest canvas width, height and area and largest dilation radius explored.
MaxW == 3
MaxH == 3
MaxPixels == 9
MaxRadius == 2
\* Largest canvas area on which two generator calls in a row are explored.
MaxCallPixels == 4
\* Largest number of ring generations in flight at once in the viewer.
MaxInflight == 2

\* ----------------------------------------------------------------- helpers
Abs(n) == IF n < 0 THEN -n ELSE n

\* ------------------------------------------------- Part I : ring generator
VARIABLES
  source,         \* "annotation": ...FromAnnotation, "mask": generatePeritumoralRing
  pc,             \* position in the generator
  imageWidth,     \* canvas.width
  imageHeight,    \* canvas.height
  radius,         \* dilation radius argument
  color,          \* <<r, g, b, a>> argument
  annotationData, \* parsed JSON: [hasShapes, shapes]
  maskPixels,     \* decoded RGBA pixels of the mask image (raster path), <<>>
                  \* before the image is loaded
  binaryMask,     \* Int8Array, 0 background / 1 foreground
  foregroundCount,
  queue,          \* BFS worklist (pixel indices, in push order)
  head,           \* number of worklist entries already taken
  distances,      \* Int16Array, -1 = unset
  ringImageData,  \* output pixels, <<r, g, b, a>> each, <<>> before createImageData
  result,         \* "none" | "image" (the promise resolved with the canvas PNG)
  error           \* "" or the message the promise rejected with

genVars == <<source, pc, imageWidth, imageHeight, radius, color, annotationData,
             maskPixels, binaryMask, foregroundCount, queue, head, distances,
             ringImageData, result, error>>

\* ------------------------------------------------- Part II : viewer, Home
VARIABLES
  selectedPatient, \* Home: selectedPatient (its id), "none" before a selection
  showRing,        \* UltrasoundViewer: showRing
  ringImageUrl,    \* UltrasoundViewer: ringImageUrl, "none" = null, else the
                   \* patient whose annotation the image was generated from
  imageMetrics,    \* UltrasoundViewer: imageMetrics, "none" = null
  language,        \* SettingsContext: language
  inflight,        \* pending generatePeritumoralRingFromAnnotation promises:
                   \* a bag of [patient, live], live = started by the mounted
                   \* viewer instance
  annotationBbox,  \* UltrasoundViewer: annotationBbox, "none" = null, else the
                   \* patient from whose annotation the box was extracted
  loadPending,     \* loadAnnotations of the mounted viewer is awaiting its fetch
  abortedLoad,     \* NoLoad, or the [patient, live] load whose controller was
                   \* aborted and whose catch has not run yet
  conceptState,    \* Home: conceptState
  patientConceptStates, \* Home: Map of patient id -> ConceptState; Unsaved
                   \* where the map has no entry
  scale,           \* UltrasoundViewer: scale, in thousandths (1000 = 1x)
  zoomToROI,       \* UltrasoundViewer: zoomToROI
  mode,            \* UltrasoundViewer: mode
  hist             \* the last step taken (history, for stating the claims)

viewerVars == <<selectedPatient, showRing, ringImageUrl, imageMetrics, language,
                inflight, annotationBbox, loadPending, abortedLoad, conceptState,
                patientConceptStates, scale, zoomToROI, mode, hist>>

zoomVars == <<scale, zoomToROI, mode>>

homeVars == <<conceptState, patientConceptStates>>

loadVars == <<annotationBbox, loadPending, abortedLoad>>

\* ------------------------------------------- an earlier generator call
VARIABLES
  previous         \* the mask, radius, colour and output of the generator call
                   \* that resolved before the current one (called = FALSE: none)

\* ------------------------------------------- Part III : bounding box
VARIABLES
  bboxShapes,      \* the argument of extractAnnotationBbox (payload.shapes)
  bboxResult,      \* what the call returned, or that it threw
  bboxPc           \* "idle" | "called" | "returned"

bboxVars == <<bboxShapes, bboxResult, bboxPc>>

\* ------------------------------------------- Part IV : diagnosis
VARIABLES
  diagState,       \* the ConceptState argument of calculateDiagnosis
  diagResult,      \* the DiagnosisResult returned (stages and probabilities)
  diagPc           \* "idle" | "called" | "returned"

diagVars == <<diagState, diagResult, diagPc>>

\* ------------------------------------------- Part V : clinical concept state
VARIABLES
  parsePatient,    \* the argument of getConceptStateFromPatient
  parseResult,     \* the ConceptState returned
  parsePc          \* "idle" | "called" | "returned"

parseVars == <<parsePatient, parseResult, parsePc>>

\* ------------------------------------------- Part VI : image API
VARIABLES
  apiRequest,      \* the request of GET /api/images/[...path]
  apiResponse,     \* its response, and the file that was read for it
  apiPc            \* "idle" | "called" | "returned"

apiVars == <<apiRequest, apiResponse, apiPc>>

\* The parts that are calls of pure functions.
callVars == <<bboxVars, diagVars, parseVars, apiVars>>

vars == <<genVars, viewerVars, previous, callVars>>

\* What the steps of one part leave alone.
nonGenVars == <<viewerVars, previous, callVars>>
nonViewerVars == <<genVars, previous, callVars>>
nonBboxVars == <<genVars, viewerVars, previous, diagVars, parseVars, apiVars>>
nonDiagVars == <<genVars, viewerVars, previous, bboxVars, parseVars, apiVars>>
nonParseVars == <<genVars, viewerVars, previous, bboxVars, diagVars, apiVars>>
nonApiVars == <<genVars, viewerVars, previous, bboxVars, diagVars, parseVars>>

NoCall == [called |-> FALSE, mask |-> <<>>, radius |-> 0, color |-> <<>>, output |-> <<>>]

\* ------------------------------------------- Part III : bounding box
\* Largest number of shapes in the argument of extractAnnotationBbox.
MaxShapes == 2

\* JSON values in the place of a coordinate: a finite number, +-Infinity (the
\* value of a literal such as 1e999) or something that is not a number.
Num(n) == [kind |-> "number", v |-> n]
PosInf == [kind |-> "inf", v |-> 1]
NegInf == [kind |-> "inf", v |-> -1]
NotNumber == [kind |-> "other", v |-> 0]

\* typeof c === 'number'
IsNumber(c) == c.kind \in {"number", "inf"}

\* a < b on numbers
Below(a, b) ==
  \/ a = NegInf /\ b # NegInf
  \/ a.kind = "number" /\ b = PosInf
  \/ a.kind = "number" /\ b.kind = "number" /\ a.v < b.v

MathMin(a, b) == IF Below(b, a) THEN b ELSE a
MathMax(a, b) == IF Below(a, b) THEN b ELSE a

\* A point: an array [x, y], or a value that cannot be destructured (null).
Point(x, y) == [iterable |-> TRUE, x |-> x, y |-> y]
NullPoint == [iterable |-> FALSE, x |-> NotNumber, y |-> NotNumber]

\* Labels, as sequences of characters; NoLabel: the shape has no label.
Label(cs) == [defined |-> TRUE, chars |-> cs]
NoLabel == [defined |-> FALSE, chars |-> <<>>]
Liver == Label(<<"l", "i", "v", "e", "r">>)
TumorLesion == Label(<<"t", "u", "m", "o", "r", "_", "l", "e", "s", "i", "o", "n">>)
RoiUpper == Label(<<"R", "O", "I">>)
Tumour == Label(<<"T", "u", "m", "o", "u", "r">>)
Labels == {NoLabel, Liver, TumorLesion, RoiUpper, Tumour}

\* Point lists of a shape; NoPoints: shape.points is not an array.
Triangle == <<Point(Num(0), Num(0)), Point(Num(10), Num(0)), Point(Num(0), Num(10))>>
NoPoints == [isArray |-> FALSE, list |-> <<>>]
PointLists ==
  {NoPoints} \cup
  {[isArray |-> TRUE, list |-> l] :
     l \in {<<>>,
            Triangle,
            <<Point(Num(3), Num(4))>>,
            <<Point(Num(7), Num(2)), Point(Num(1), Num(9))>>,
            <<Point(NotNumber, Num(5))>>,
            <<Point(PosInf, Num(5)), Point(Num(2), Num(2))>>,
            <<Point(PosInf, Num(5))>>,
            <<NullPoint>>}}

ShapeValues == [label : Labels, points : PointLists]

\* payload.shapes: an array of at most MaxShapes shapes, or no array.
NotArray == [isArray |-> FALSE, list |-> <<>>]
ShapeLists ==
  {NotArray} \cup
  {[isArray |-> TRUE, list |-> l] :
     l \in UNION {[1..n -> ShapeValues] : n \in 0..MaxShapes}}

\* Results of a call.
Null == [kind |-> "null"]
Throws == [kind |-> "throws"]
Box(a, b, c, d) == [kind |-> "box", x1 |-> a, y1 |-> b, x2 |-> c, y2 |-> d]

\* String.prototype.toLowerCase on the letters of the labels.
UpperCase ==
  <<"A", "B", "C", "D", "E", "F", "G", "H", "I", "J", "K", "L", "M",
    "N", "O", "P", "Q", "R", "S", "T", "U", "V", "W", "X", "Y", "Z">>
LowerCase ==
  <<"a", "b", "c", "d", "e", "f", "g", "h", "i", "j", "k", "l", "m",
    "n", "o", "p", "q", "r", "s", "t", "u", "v", "w", "x", "y", "z">>

ToLower(c) ==
  IF \E k \in 1..Len(UpperCase) : UpperCase[k] = c
    THEN LowerCase[CHOOSE k \in 1..Len(UpperCase) : UpperCase[k] = c]
    ELSE c

ToLowerCase(cs) == [k \in 1..Len(cs) |-> ToLower(cs[k])]

\* String.prototype.includes
Includes(hay, needle) ==
  \E k \in 0..(Len(hay) - Len(needle)) : SubSeq(hay, k + 1, k + Len(needle)) = needle

\* morphology.ts 333
LABEL_KEYWORDS == {<<"l", "e", "s", "i", "o", "n">>,
                   <<"r", "o", "i">>,
                   <<"t", "u", "m", "o", "r">>,
                   <<"t", "a", "r", "g", "e", "t">>}

\* morphology.ts 335-339
MatchesAnnotation(label) ==
  IF ~label.defined \/ label.chars = <<>>
    THEN FALSE
    ELSE \E keyword \in LABEL_KEYWORDS : Includes(ToLowerCase(label.chars), keyword)

\* morphology.ts 347-362: the two forEach loops, on the points left to visit.
\* acc.thrown: destructuring a point that is not iterable threw.
RECURSIVE ScanPoints(_, _)
ScanPoints(points, acc) ==
  IF points = <<>> \/ acc.thrown
    THEN acc
    ELSE LET point == Head(points)
         IN  IF ~point.iterable
               THEN [acc EXCEPT !.thrown = TRUE]
               ELSE IF ~IsNumber(point.x) \/ ~IsNumber(point.y)
                 THEN ScanPoints(Tail(points), acc)
                 ELSE ScanPoints(Tail(points),
                        [acc EXCEPT !.xMin = MathMin(@, point.x),
                                    !.yMin = MathMin(@, point.y),
                                    !.xMax = MathMax(@, point.x),
                                    !.yMax = MathMax(@, point.y)])

RECURSIVE ScanShapes(_, _)
ScanShapes(candidates, acc) ==
  IF candidates = <<>> \/ acc.thrown
    THEN acc
    ELSE ScanShapes(Tail(candidates),
           IF ~Head(candidates).points.isArray
             THEN acc
             ELSE ScanPoints(Head(candidates).points.list, acc))

\* morphology.ts 364-373
BoxOrNull(acc) ==
  IF acc.xMin = PosInf \/ acc.yMin = PosInf \/ acc.xMax = NegInf \/ acc.yMax = NegInf
    THEN Null
    ELSE Box(acc.xMin, acc.yMin, acc.xMax, acc.yMax)

\* morphology.ts 347-373: the box of the candidate shapes
BoxOf(candidates) ==
  LET acc == ScanShapes(candidates,
               [xMin |-> PosInf, yMin |-> PosInf, xMax |-> NegInf, yMax |-> NegInf,
                thrown |-> FALSE])
  IN  IF acc.thrown THEN Throws ELSE BoxOrNull(acc)

\* Mutant: all shapes are candidates, whatever their labels.
CandidatesAll(list) == list

\* morphology.ts 344-345
Candidates(list) ==
  LET filtered == SelectSeq(list, LAMBDA shape : MatchesAnnotation(shape.label))
  IN  IF Len(filtered) > 0 THEN filtered ELSE list

\* morphology.ts 341-374
ExtractAnnotationBbox(shapes) ==
  IF ~shapes.isArray \/ Len(shapes.list) = 0
    THEN Null
    ELSE BoxOf(Candidates(shapes.list))

BboxIdle ==
  /\ bboxShapes = NotArray
  /\ bboxResult = Null
  /\ bboxPc = "idle"

\* UltrasoundViewer.tsx 181: extractAnnotationBbox(payload.shapes)
BboxInit ==
  /\ bboxShapes \in ShapeLists
  /\ bboxResult = Null
  /\ bboxPc = "called"

CallExtractBbox ==
  /\ bboxPc = "called"
  /\ bboxResult' = ExtractAnnotationBbox(bboxShapes)
  /\ bboxPc' = "returned"
  /\ UNCHANGED bboxShapes
  /\ UNCHANGED nonBboxVars

BboxNext == CallExtractBbox

\* types.ts 15-35
DEFAULT_STATE ==
  [c1 |-> 45, c2 |-> 5, c3 |-> 10, c4 |-> 15, c5 |-> 40, c6 |-> 30, c7 |-> 25,
   differentiation |-> 3, lauren |-> 1, vascularInvasion |-> 0, neuralInvasion |-> 0]

\* ------------------------------------------- Part IV : diagnosis
\* Scores and probabilities are held in thousandths, so that the decimal
\* factors of the code (0.4, 0.3, 0.5, 0.7, 0.8, 0.6) are exact.
Milli == 1000

\* Spacing of the concept values c1, c2, c3, c4 tried, over 0..100.
LevelStep == 50

ConceptLevels == {k * LevelStep : k \in 0..(100 \div LevelStep)}

\* The concept states tried: c1..c4 on the levels, c6 and c7 either way
\* round, every grade, Lauren type and invasion flag.
DiagInputs ==
  [c1 : ConceptLevels, c2 : ConceptLevels, c3 : ConceptLevels, c4 : ConceptLevels,
   c5 : {DEFAULT_STATE.c5}, c6 : {DEFAULT_STATE.c6, DEFAULT_STATE.c7},
   c7 : {DEFAULT_STATE.c7}, differentiation : 1..5, lauren : {0, 1, 4},
   vascularInvasion : {0, 1}, neuralInvasion : {0, 1}]

\* Math.max(0, Math.min(100, v)), v in thousandths
Clamp(v) ==
  LET m == IF v < 100 * Milli THEN v ELSE 100 * Milli
  IN  IF m > 0 THEN m ELSE 0

\* diagnosis.ts 290, 311, 327-328, 338
TScore(state) ==
  LET proliferationScore == state.c1 * 4 * (Milli \div 10) + state.c3 * 3 * (Milli \div 10)
      invasionScore == (IF state.vascularInvasion # 0 THEN 30 ELSE 0)
                       + (IF state.neuralInvasion # 0 THEN 20 ELSE 0)
      diffVal == IF state.differentiation # 0 THEN state.differentiation ELSE 2
      differentiationPenalty == (diffVal - 1) * 8
      sum == proliferationScore \div 2 + invasionScore * Milli
             + differentiationPenalty * Milli
  IN  IF sum < 100 * Milli THEN sum ELSE 100 * Milli

\* diagnosis.ts 351, 367, 376-377, 393
NScore(state) ==
  LET immuneScore == state.c4 * 5 * (Milli \div 10) + state.c2 * 3 * (Milli \div 10)
      microEnvScore == IF state.c6 > state.c7 THEN 20 ELSE 0
      laurenRisk == IF state.lauren = 0 THEN 30 ELSE IF state.lauren = 4 THEN 15 ELSE 0
      sum == immuneScore + microEnvScore * Milli + laurenRisk * Milli
  IN  IF sum < 100 * Milli THEN sum ELSE 100 * Milli

\* diagnosis.ts 345
TStageOf(probT4, probT3) ==
  IF probT4 > 60 * Milli THEN "T4a"
  ELSE IF probT3 > 45 * Milli THEN "T3" ELSE "T1/T2"

\* diagnosis.ts 400
NStageOf(probN3, probN2, probN1) ==
  IF probN3 > 50 * Milli THEN "N3"
  ELSE IF probN2 > 40 * Milli THEN "N2"
  ELSE IF probN1 > 30 * Milli THEN "N1" ELSE "N0"

\* diagnosis.ts 282-405: stages and probabilities (thousandths)
CalculateDiagnosis(state) ==
  LET tScore == TScore(state)
      probT4 == Clamp(tScore)
      probT3 == Clamp(((100 * Milli - probT4) * 7) \div 10)
      probT2 == 100 * Milli - probT4 - probT3
      nScore == NScore(state)
      probN3 == Clamp((nScore * 8) \div 10)
      probN2 == Clamp(((nScore - 30 * Milli) * 6) \div 10)
      probN1 == Clamp(((nScore - 20 * Milli) * 5) \div 10)
      rest == 100 * Milli - probN3 - probN2 - probN1
      probN0 == IF rest > 0 THEN rest ELSE 0
  IN  [tStage |-> TStageOf(probT4, probT3),
       nStage |-> NStageOf(probN3, probN2, probN1),
       t4 |-> probT4, t3 |-> probT3, t2 |-> probT2,
       n3 |-> probN3, n2 |-> probN2, n1 |-> probN1, n0 |-> probN0]

NoDiagnosis ==
  [tStage |-> "", nStage |-> "", t4 |-> 0, t3 |-> 0, t2 |-> 0,
   n3 |-> 0, n2 |-> 0, n1 |-> 0, n0 |-> 0]

DiagIdle ==
  /\ diagState = DEFAULT_STATE
  /\ diagResult = NoDiagnosis
  /\ diagPc = "idle"

\* DiagnosisPanel.tsx 30: calculateDiagnosis(state, patient)
DiagInit ==
  /\ diagState \in DiagInputs
  /\ diagResult = NoDiagnosis
  /\ diagPc = "called"

CallCalculateDiagnosis ==
  /\ diagPc = "called"
  /\ diagResult' = CalculateDiagnosis(diagState)
  /\ diagPc' = "returned"
  /\ UNCHANGED diagState
  /\ UNCHANGED nonDiagVars

DiagNext == CallCalculateDiagnosis

\* ------------------------------------------- Part V : clinical concept state
\* Strings are sequences of characters; a character outside ASCII is written
\* by its code point (u9ad8). NoText: the field is missing (undefined).
Text(cs) == [defined |-> TRUE, chars |-> cs]
NoText == [defined |-> FALSE, chars |-> <<>>]

\* String.prototype.trim
RECURSIVE TrimStart(_)
TrimStart(cs) ==
  IF cs # <<>> /\ Head(cs) = " " THEN TrimStart(Tail(cs)) ELSE cs

RECURSIVE TrimEnd(_)
TrimEnd(cs) ==
  IF cs # <<>> /\ cs[Len(cs)] = " " THEN TrimEnd(SubSeq(cs, 1, Len(cs) - 1)) ELSE cs

Trim(cs) == TrimEnd(TrimStart(cs))

\* value.replace(/%/g, '')
RemovePercent(cs) == SelectSeq(cs, LAMBDA c : c # "%")

Digits == <<"0", "1", "2", "3", "4", "5", "6", "7", "8", "9">>

IsDigit(c) == \E k \in 1..Len(Digits) : Digits[k] = c

DigitValue(c) == (CHOOSE k \in 1..Len(Digits) : Digits[k] = c) - 1

\* The number written by the longest prefix of digits of cs, after acc.
RECURSIVE DigitsValue(_, _)
DigitsValue(cs, acc) ==
  IF cs # <<>> /\ IsDigit(Head(cs))
    THEN DigitsValue(Tail(cs), 10 * acc + DigitValue(Head(cs)))
    ELSE acc

INFINITY == <<"I", "n", "f", "i", "n", "i", "t", "y">>

StartsWith(cs, prefix) ==
  Len(cs) >= Len(prefix) /\ SubSeq(cs, 1, Len(prefix)) = prefix

\* parseFloat on strings without decimal point or exponent: leading blanks
\* are skipped, then an optional sign, then Infinity or the longest run of
\* digits; what follows is ignored. NotNumber stands for NaN.
ParseFloat(cs) ==
  LET t == TrimStart(cs)
      signed == t # <<>> /\ Head(t) \in {"+", "-"}
      sign == IF signed /\ Head(t) = "-" THEN -1 ELSE 1
      rest == IF signed THEN Tail(t) ELSE t
  IN  IF StartsWith(rest, INFINITY)
        THEN (IF sign = 1 THEN PosInf ELSE NegInf)
        ELSE IF rest # <<>> /\ IsDigit(Head(rest))
          THEN Num(sign * DigitsValue(rest, 0))
          ELSE NotNumber

\* Mutant: config.ts 115-129, the version that falls back to 0.
ParseConceptValueZero(value, defaultValue) ==
  IF ~value.defined \/ value.chars = <<>>
    THEN 0
    ELSE LET num == ParseFloat(Trim(RemovePercent(value.chars)))
         IN  IF num # NotNumber
               THEN MathMax(Num(0), MathMin(Num(100), num)).v
               ELSE 0

\* patient-utils.ts 8-24
ParseConceptValue(value, defaultValue) ==
  IF ~value.defined \/ value.chars = <<>> \/ Trim(value.chars) = <<>>
    THEN defaultValue
    ELSE LET num == ParseFloat(Trim(RemovePercent(value.chars)))
         IN  IF num # NotNumber
               THEN MathMax(Num(0), MathMin(Num(100), num)).v
               ELSE defaultValue

\* patient-utils.ts 29-40
ParseDifferentiation(value) ==
  IF ~value.defined \/ value.chars = <<>>
    THEN 3
    ELSE LET cleaned == ToLowerCase(Trim(value.chars))
         IN  IF \/ Includes(cleaned, <<"1">>)
                \/ Includes(cleaned, <<"w", "e", "l", "l">>)
                \/ Includes(cleaned, <<"u9ad8", "u5206", "u5316">>)
               THEN 1
             ELSE IF \/ Includes(cleaned, <<"2">>)
                     \/ Includes(cleaned, <<"m", "o", "d">>)
                     \/ Includes(cleaned, <<"u4e2d", "u5206", "u5316">>)
               THEN 2
             ELSE IF \/ Includes(cleaned, <<"3">>)
                     \/ Includes(cleaned, <<"m", "o", "d", "-", "p", "o", "o", "r">>)
                     \/ Includes(cleaned, <<"u4e2d", "-", "u4f4e">>)
               THEN 3
             ELSE IF \/ Includes(cleaned, <<"4">>)
                     \/ Includes(cleaned, <<"p", "o", "o", "r">>)
                     \/ Includes(cleaned, <<"u4f4e", "u5206", "u5316">>)
               THEN 4
             ELSE 5

\* patient-utils.ts 45-55
ParseLauren(value) ==
  IF ~value.defined \/ value.chars = <<>>
    THEN 1
    ELSE LET cleaned == ToLowerCase(Trim(value.chars))
         IN  IF \/ Includes(cleaned, <<"0">>)
                \/ Includes(cleaned, <<"d", "i", "f", "f", "u", "s", "e">>)
                \/ Includes(cleaned, <<"u5f25", "u6f2b">>)
               THEN 0
             ELSE IF \/ Includes(cleaned, <<"1">>)
                     \/ Includes(cleaned, <<"i", "n", "t", "e", "s", "t", "i", "n", "a", "l">>)
                     \/ Includes(cleaned, <<"u80a0", "u578b">>)
               THEN 1
             ELSE IF \/ Includes(cleaned, <<"4">>)
                     \/ Includes(cleaned, <<"m", "i", "x", "e", "d">>)
                     \/ Includes(cleaned, <<"u6df7", "u5408">>)
               THEN 4
             ELSE 1

\* patient-utils.ts 60-70
ParseInvasion(value) ==
  IF ~value.defined \/ value.chars = <<>>
    THEN 0
    ELSE LET cleaned == ToLowerCase(Trim(value.chars))
         IN  IF \/ Includes(cleaned, <<"y", "e", "s">>)
                \/ Includes(cleaned, <<"u6709">>)
                \/ Includes(cleaned, <<"1">>)
                \/ Includes(cleaned, <<"+">>)
               THEN 1
               ELSE 0

\* patient.clinical.concept_features is missing (or patient is null).
NoFeatures == [hasFeatures |-> FALSE]

\* patient-utils.ts 77-98
GetConceptStateFromPatient(patient) ==
  IF ~patient.hasFeatures
    THEN DEFAULT_STATE
    ELSE LET features == patient.features
         IN  [c1 |-> ParseConceptValue(features.ki67, DEFAULT_STATE.c1),
              c2 |-> ParseConceptValue(features.cps, DEFAULT_STATE.c2),
              c3 |-> ParseConceptValue(features.pd1, DEFAULT_STATE.c3),
              c4 |-> ParseConceptValue(features.foxp3, DEFAULT_STATE.c4),
              c5 |-> ParseConceptValue(features.cd3, DEFAULT_STATE.c5),
              c6 |-> ParseConceptValue(features.cd4, DEFAULT_STATE.c6),
              c7 |-> ParseConceptValue(features.cd8, DEFAULT_STATE.c7),
              differentiation |-> ParseDifferentiation(features.differentiation),
              lauren |-> ParseLauren(features.lauren),
              vascularInvasion |-> ParseInvasion(features.vascular),
              neuralInvasion |-> ParseInvasion(features.neural)]

\* The strings tried for a concept value, a grade, a Lauren type, a flag.
Blank == <<" ", " ">>
SixtyPercent == <<"6", "0", "%">>

ValueTexts ==
  {NoText} \cup
  {Text(cs) : cs \in {<<>>, Blank, <<"6", "0">>, SixtyPercent, <<" ", "4", "5", " ", "%", " ">>, <<"1", "5", "0">>,
                      <<"-", "5">>, <<"1", "2", "a", "b", "c">>, <<"a", "b", "c">>, <<"I", "n", "f", "i", "n", "i", "t", "y">>, <<"%">>}}

GradeTexts ==
  {NoText} \cup
  {Text(cs) : cs \in {<<>>, Blank,
                      <<"W", "e", "l", "l">>,
                      <<"M", "o", "d">>,
                      <<"M", "o", "d", "-", "P", "o", "o", "r">>,
                      <<"P", "o", "o", "r">>,
                      <<"p", "o", "o", "r", "l", "y", " ", "d", "i", "f", "f", "e", "r", "e", "n", "t", "i", "a", "t", "e", "d">>,
                      <<"u", "n", "k", "n", "o", "w", "n">>,
                      <<"G", "3">>,
                      <<"u4e2d", "-", "u4f4e", "u5206", "u5316">>,
                      <<"u4f4e", "u5206", "u5316">>,
                      <<"M", "o", "d", "e", "r", "a", "t", "e">>}}

LaurenTexts ==
  {NoText} \cup
  {Text(cs) : cs \in {<<"D", "i", "f", "f", "u", "s", "e">>,
                      <<"I", "n", "t", "e", "s", "t", "i", "n", "a", "l">>,
                      <<"m", "i", "x", "e", "d">>,
                      <<"u", "n", "k", "n", "o", "w", "n">>}}

FlagTexts ==
  {NoText} \cup {Text(cs) : cs \in {<<"Y", "e", "s">>, <<"N", "o">>, <<"+">>, Blank}}

\* The patients tried: without concept features, or with features whose
\* Ki-67, CPS, grade, Lauren type and vascular flag range over the strings
\* above, the other fields being missing.
ParseInputs ==
  {NoFeatures} \cup
  {[hasFeatures |-> TRUE,
    features |-> [ki67 |-> in[1], cps |-> in[2], pd1 |-> NoText, foxp3 |-> NoText,
                  cd3 |-> NoText, cd4 |-> NoText, cd8 |-> NoText,
                  differentiation |-> in[3], lauren |-> in[4],
                  vascular |-> in[5], neural |-> NoText]] :
     in \in ValueTexts \X {NoText, Text(Blank), Text(SixtyPercent)} \X GradeTexts
            \X LaurenTexts \X FlagTexts}

NoConceptState == [c1 |-> -1]

ParseIdle ==
  /\ parsePatient = NoFeatures
  /\ parseResult = NoConceptState
  /\ parsePc = "idle"

\* part_006 148: getConceptStateFromPatient(selectedPatient)
ParseInit ==
  /\ parsePatient \in ParseInputs
  /\ parseResult = NoConceptState
  /\ parsePc = "called"

CallGetConceptState ==
  /\ parsePc = "called"
  /\ parseResult' = GetConceptStateFromPatient(parsePatient)
  /\ parsePc' = "returned"
  /\ UNCHANGED parsePatient
  /\ UNCHANGED nonParseVars

ParseNext == CallGetConceptState

\* ------------------------------------------- Part VI : the image API
\* app/api/images/[...path]/route.ts (part_006 1-89). Text is a sequence of
\* units: a unit is a run of characters that the route never splits ("a" is
\* an ordinary character, ".." two dots, ".PNG" an extension in capitals,
\* "%2F" an escaped slash, "%" an escape that is not well formed, and a word
\* such as "images" the characters of that word). A path of the file system
\* is the sequence of its components, each component a text.
MaxNameLen == 3

NameUnits == {"a", "..", "/", "%2F", "%", ".PNG"}

RECURSIVE TextsUpTo(_)
TextsUpTo(n) ==
  IF n = 0 THEN {<<>>}
  ELSE LET shorter == TextsUpTo(n - 1)
       IN  shorter \cup {Append(t, u) : t \in {s \in shorter : Len(s) = n - 1},
                                         u \in NameUnits}

\* A segment of a URL is never empty.
FileNames == TextsUpTo(MaxNameLen) \ {<<>>}

Word(w) == <<w>>

\* String.prototype.toLowerCase on the units of a text
LowerUnit(u) == IF u = ".PNG" THEN ".png" ELSE u
LowerText(cs) == [k \in 1..Len(cs) |-> LowerUnit(cs[k])]

\* String.prototype.endsWith
EndsWith(cs, suffix) ==
  Len(cs) >= Len(suffix) /\ SubSeq(cs, Len(cs) - Len(suffix) + 1, Len(cs)) = suffix

\* decodeURIComponent: throws URIError on an escape that is not well formed,
\* and replaces every escape by the character it stands for.
DecodeThrows(cs) == \E k \in 1..Len(cs) : cs[k] = "%"
DecodeUnit(u) == IF u = "%2F" THEN "/" ELSE u
DecodeURIComponent(cs) == [k \in 1..Len(cs) |-> DecodeUnit(cs[k])]

\* path.basename (POSIX): trailing separators are dropped, then what follows
\* the last separator is returned.
RECURSIVE StripTrailingSlashes(_)
StripTrailingSlashes(cs) ==
  IF Len(cs) > 0 /\ cs[Len(cs)] = "/"
    THEN StripTrailingSlashes(SubSeq(cs, 1, Len(cs) - 1))
    ELSE cs

BasenameNone(cs) == cs
Basename(cs) ==
  LET stripped == StripTrailingSlashes(cs)
      slashes == {k \in 1..Len(stripped) : stripped[k] = "/"}
      last == IF slashes = {} THEN 0
              ELSE CHOOSE k \in slashes : \A j \in slashes : j <= k
  IN  SubSeq(stripped, last + 1, Len(stripped))

\* path.join(dir, name) with its normalisation: name is cut at the
\* separators; an empty component is skipped, ".." removes the last
\* component reached so far, any other component is appended.
RECURSIVE PathJoin(_, _)
PathJoin(dir, cs) ==
  IF cs = <<>> THEN dir
  ELSE LET slashes == {k \in 1..Len(cs) : cs[k] = "/"}
           cut == IF slashes = {} THEN Len(cs) + 1
                  ELSE CHOOSE k \in slashes : \A j \in slashes : k <= j
           component == SubSeq(cs, 1, cut - 1)
           rest == SubSeq(cs, cut + 1, Len(cs))
           reached == IF component = <<>> THEN dir
                      ELSE IF component = Word("..")
                        THEN SubSeq(dir, 1, IF Len(dir) = 0 THEN 0 ELSE Len(dir) - 1)
                      ELSE Append(dir, component)
       IN  PathJoin(reached, rest)

\* config.ts 4-8: path.resolve(process.cwd(), '../<name>'); CwdParent is the
\* directory above the working directory of the server.
CwdParent == <<Word("srv")>>

DATASET_ORIGINAL_ROOT == Append(CwdParent, Word("Gastric_Cancer_Dataset"))
DATASET_CROPPED_ROOT == Append(CwdParent, Word("Gastric_Cancer_Dataset_Cropped"))
DATASET_2019_CROPPED_ROOT ==
  CwdParent \o <<Word("2019_direct_surgery"), Word("Cropped")>>
DATASET_2024_CROPPED_ROOT ==
  Append(CwdParent, Word("Gastric_Cancer_Dataset_2024_Cropped"))

DatasetPaths(root) ==
  [root |-> root,
   images |-> PathJoin(root, Word("images")),
   overlays |-> PathJoin(root, Word("overlays")),
   overlaysTransparent |-> PathJoin(root, Word("lymph_node_analysis")),
   annotations |-> PathJoin(root, Word("annotations"))]

\* config.ts 14-87
GetDatasetPaths(dataset, cohortYear, treatmentType) ==
  IF treatmentType = "nac" /\ cohortYear = "2019"
    THEN DatasetPaths(Append(CwdParent, Word("Gastric_Cancer_Dataset_2019_nac")))
  ELSE IF treatmentType = "nac" /\ cohortYear = "2024"
    THEN DatasetPaths(Append(CwdParent, Word("Gastric_Cancer_Dataset_2024_nac")))
  ELSE IF treatmentType = "nac" /\ cohortYear = "2025"
    THEN DatasetPaths(IF dataset = Word("cropped") THEN DATASET_CROPPED_ROOT
                      ELSE DATASET_ORIGINAL_ROOT)
  ELSE IF cohortYear = "2019"
    THEN DatasetPaths(IF dataset = Word("cropped") THEN DATASET_2019_CROPPED_ROOT
                      ELSE Append(CwdParent, Word("Gastric_Cancer_Dataset_2019")))
  ELSE IF cohortYear = "2024"
    THEN DatasetPaths(IF dataset = Word("cropped") THEN DATASET_2024_CROPPED_ROOT
                      ELSE Append(CwdParent, Word("Gastric_Cancer_Dataset_2024")))
  ELSE DatasetPaths(IF dataset = Word("cropped") THEN DATASET_CROPPED_ROOT
                    ELSE DATASET_ORIGINAL_ROOT)

\* The dataset roots of the server, and the four directories of each.
DatasetRoots ==
  {GetDatasetPaths(d, c, t).root :
     d \in {Word("original"), Word("cropped")},
     c \in {"2019", "2024", "2025"}, t \in {"surgery", "nac"}}

DatasetDirs ==
  UNION {{DatasetPaths(r).images, DatasetPaths(r).overlays,
          DatasetPaths(r).overlaysTransparent, DatasetPaths(r).annotations} :
         r \in DatasetRoots}

\* The file system the route reads: the directories above each dataset
\* directory, and a file "a" and a file "a.PNG" in every dataset directory,
\* a file "a" in every dataset root and one next to the dataset roots.
Directories ==
  DatasetDirs \cup {SubSeq(d, 1, k) : d \in DatasetDirs, k \in 0..3}

RegularFiles ==
  {Append(d, Word("a")) : d \in DatasetDirs \cup DatasetRoots \cup {CwdParent}}
    \cup {Append(d, <<"a", ".PNG">>) : d \in DatasetDirs}

\* fs.existsSync
ExistsSync(p) == p \in Directories \cup RegularFiles

NoPath == <<>>

ApiResponse(status, filePath, read, contentType) ==
  [status |-> status, filePath |-> filePath, read |-> read,
   contentType |-> contentType]

\* part_006 73-81
ContentTypeOf(filename) ==
  IF EndsWith(LowerText(filename), Word(".jpg"))
     \/ EndsWith(LowerText(filename), Word(".jpeg")) THEN "image/jpeg"
  ELSE IF EndsWith(LowerText(filename), Word(".png")) THEN "image/png"
  ELSE IF EndsWith(LowerText(filename), Word(".json")) THEN "application/json"
  ELSE "application/octet-stream"

\* part_006 6-89: the response of GET, the path handed to the file system
\* (filePath) and the file whose content was read (read). An exception
\* that leaves the handler (URIError of decodeURIComponent, EISDIR of
\* readFileSync on a directory) is answered by the framework with status 500.
ImagesGET(req) ==
  LET pathSegments == req.path
      cohortYearParam == IF req.cohort = "" THEN "2025" ELSE req.cohort
      treatmentTypeParam == IF req.treatment = "" THEN "surgery" ELSE req.treatment
      cohortYear == IF cohortYearParam = "2019" THEN "2019"
                    ELSE IF cohortYearParam = "2024" THEN "2024" ELSE "2025"
      treatmentType == IF treatmentTypeParam = "nac" THEN "nac" ELSE "surgery"
  IN
  IF Len(pathSegments) \notin {2, 3}
    THEN ApiResponse(400, NoPath, NoPath, "application/json")
  ELSE
  LET ds == pathSegments[1]
      dataset == IF Len(pathSegments) = 3
                    /\ (ds = Word("original") \/ ds = Word("cropped"))
                   THEN ds ELSE Word("original")
      type == IF Len(pathSegments) = 3 THEN pathSegments[2] ELSE pathSegments[1]
      filename == IF Len(pathSegments) = 3 THEN pathSegments[3] ELSE pathSegments[2]
      paths == GetDatasetPaths(dataset, cohortYear, treatmentType)
      known == {Word("images"), Word("overlays"), Word("lymph_node_analysis"),
                Word("annotations")}
      targetDir == IF type = Word("images") THEN paths.images
                   ELSE IF type = Word("overlays") THEN paths.overlays
                   ELSE IF type = Word("lymph_node_analysis")
                     THEN paths.overlaysTransparent
                   ELSE paths.annotations
  IN
  IF type \notin known
    THEN ApiResponse(400, NoPath, NoPath, "application/json")
  ELSE IF DecodeThrows(filename)
    THEN ApiResponse(500, NoPath, NoPath, "none")
  ELSE
  LET decodedFilename == DecodeURIComponent(filename)
      safeFilename == Basename(decodedFilename)
      filePath == PathJoin(targetDir, safeFilename)
  IN
  IF ~ExistsSync(filePath)
    THEN ApiResponse(404, filePath, NoPath, "application/json")
  ELSE IF filePath \in Directories
    THEN ApiResponse(500, filePath, NoPath, "none")
  ELSE ApiResponse(200, filePath, filePath, ContentTypeOf(filename))

\* The requests: the segments of the URL below /api/images and the cohort
\* and treatment parameters of its query ("" stands for a missing one).
SegmentTypes ==
  {Word("images"), Word("overlays"), Word("lymph_node_analysis"),
   Word("annotations"), Word("thumbnails")}
SegmentDatasets == {Word("original"), Word("cropped"), Word("raw")}

PathSegmentLists ==
  {<<>>}
    \cup {<<f>> : f \in FileNames}
    \cup {<<t, f>> : t \in SegmentTypes, f \in FileNames}
    \cup {<<d, t, f>> : d \in SegmentDatasets, t \in SegmentTypes, f \in FileNames}
    \cup {<<Word("original"), Word("images"), f, Word("a")>> : f \in FileNames}

ApiRequests ==
  [path : PathSegmentLists, cohort : {"2019", "2024", ""}, treatment : {"nac", ""}]

NoRequest == [path |-> <<>>, cohort |-> "none", treatment |-> "none"]
NoResponse == ApiResponse(0, NoPath, NoPath, "none")

ApiIdle ==
  /\ apiRequest = NoRequest
  /\ apiResponse = NoResponse
  /\ apiPc = "idle"

ApiInit ==
  /\ apiRequest \in ApiRequests
  /\ apiResponse = NoResponse
  /\ apiPc = "called"

HandleImagesGET ==
  /\ apiPc = "called"
  /\ apiResponse' = ImagesGET(apiRequest)
  /\ apiPc' = "returned"
  /\ UNCHANGED apiRequest
  /\ UNCHANGED nonApiVars

ApiNext == HandleImagesGET


CallsIdle == BboxIdle /\ DiagIdle /\ ParseIdle /\ ApiIdle

Transparent == <<0, 0, 0, 0>>

\* The viewer's colour argument and a faint second colour.
Orange == <<255, 165, 0, 200>>
Colors == {Orange, <<0, 255, 0, 1>>}

PixelsOf(w, h) == 0..(w * h - 1)
Pixels == PixelsOf(imageWidth, imageHeight)

XOf(idx, w) == idx % w
YOf(idx, w) == idx \div w

\* The pixels a filled polygon covers: nothing (a sliver between pixel
\* centres) or a block of columns x1..x2 and rows y1..y2.
Covers(w, h) ==
  {{}} \cup
  {{i \in PixelsOf(w, h) : /\ XOf(i, w) >= x1 /\ XOf(i, w) <= x2
                           /\ YOf(i, w) >= y1 /\ YOf(i, w) <= y2} :
     x1 \in 0..(w - 1), x2 \in 0..(w - 1), y1 \in 0..(h - 1), y2 \in 0..(h - 1)}

\* A shape of the annotation: the number of its points and the pixels that
\* filling its path paints white on the canvas.
ShapesOn(w, h) ==
  [npoints : {3}, cover : Covers(w, h)]

Degenerate(px) == [npoints |-> 2, cover |-> px]

AnnotationsOn(w, h) ==
  {<<>>}
    \cup {<<s>> : s \in ShapesOn(w, h)}
    \cup {<<Degenerate(PixelsOf(w, h))>>}
    \cup {<<Degenerate(PixelsOf(w, h)), [npoints |-> 3, cover |-> {p}]>> :
             p \in PixelsOf(w, h)}
    \cup {<<[npoints |-> 3, cover |-> {p}], [npoints |-> 3, cover |-> {q}]>> :
             p \in PixelsOf(w, h), q \in PixelsOf(w, h)}

NoAnnotation == [hasShapes |-> FALSE, shapes |-> <<>>]

\* Decoded mask images of the raster path: lesion pixels are opaque white or
\* faint green, the others transparent or opaque near-black.
White == <<255, 255, 255, 255>>
FaintGreen == <<0, 60, 0, 10>>
NearBlack == <<10, 10, 10, 255>>

RasterImage(px, c) ==
  [i \in px |-> IF i \in c
                  THEN (IF i % 2 = 0 THEN White ELSE FaintGreen)
                  ELSE (IF i % 2 = 0 THEN Transparent ELSE NearBlack)]

\* No image data: nothing decoded, nothing created.
NoPixels == <<>>

\* --- mask construction, annotation path (morphology.ts 63-92)
\* Mutant: the test on the number of points is dropped.
DrawMaskNoCheck(shapes, px) ==
  [i \in px |->
     IF \E k \in 1..Len(shapes) : i \in shapes[k].cover THEN 1 ELSE 0]

DrawMask(shapes, px) ==
  [i \in px |->
     IF \E k \in 1..Len(shapes) :
          shapes[k].npoints >= 3 /\ i \in shapes[k].cover
       THEN 1 ELSE 0]

\* --- mask construction, raster path (morphology.ts 209-224)
IsForeground(p) ==
  (p[4] > 20 /\ (p[1] + p[2] + p[3]) > 30) \/ (p[2] > 50 /\ p[2] > p[1] /\ p[2] > p[3])

ExtractMask(pixels, px) ==
  [i \in px |-> IF IsForeground(pixels[i]) THEN 1 ELSE 0]

CountForeground(mask) == Cardinality({i \in DOMAIN mask : mask[i] = 1})

\* --- seed scan (morphology.ts 105-122)
\* Mutant: only the left and right neighbours are tested.
IsEdgeHorizontal(mask, w, h, idx) ==
  LET x == XOf(idx, w)
  IN  \/ (x > 0 /\ mask[idx - 1] = 0)
      \/ (x < w - 1 /\ mask[idx + 1] = 0)

IsEdge(mask, w, h, idx) ==
  LET x == XOf(idx, w)
      y == YOf(idx, w)
  IN  \/ (x > 0 /\ mask[idx - 1] = 0)
      \/ (x < w - 1 /\ mask[idx + 1] = 0)
      \/ (y > 0 /\ mask[idx - w] = 0)
      \/ (y < h - 1 /\ mask[idx + w] = 0)

IsSeed(mask, w, h, idx) == mask[idx] = 1 /\ IsEdge(mask, w, h, idx)

\* Row-major scan: the worklist holds the seeds in increasing index order.
SeedQueue(mask, w, h) ==
  SelectSeq([k \in 1..(w * h) |-> k - 1], LAMBDA idx : IsSeed(mask, w, h, idx))

SeedDistances(mask, w, h) ==
  [i \in PixelsOf(w, h) |-> IF IsSeed(mask, w, h, i) THEN 0 ELSE -1]

\* Mutant: the buffer of the earlier call is used again as it was left.
ReuseDistances(old, px) == IF DOMAIN old = px THEN old ELSE [i \in px |-> -1]

\* new Int16Array(imageWidth * imageHeight).fill(-1): each call allocates its
\* own buffer, whatever an earlier call left behind (old).
AllocDistances(old, px) == [i \in px |-> -1]

\* --- one iteration of the BFS loop (morphology.ts 128-152)
\* Mutant: 8-neighbourhood instead of the 4-neighbourhood.
NeighborsDiag(idx, w) ==
  LET cx == XOf(idx, w)
      cy == YOf(idx, w)
  IN  << [x |-> cx - 1, y |-> cy, idx |-> idx - 1],
         [x |-> cx + 1, y |-> cy, idx |-> idx + 1],
         [x |-> cx, y |-> cy - 1, idx |-> idx - w],
         [x |-> cx, y |-> cy + 1, idx |-> idx + w],
         [x |-> cx - 1, y |-> cy - 1, idx |-> idx - w - 1],
         [x |-> cx + 1, y |-> cy - 1, idx |-> idx - w + 1],
         [x |-> cx - 1, y |-> cy + 1, idx |-> idx + w - 1],
         [x |-> cx + 1, y |-> cy + 1, idx |-> idx + w + 1] >>

Neighbors(idx, w) ==
  LET cx == XOf(idx, w)
      cy == YOf(idx, w)
  IN  << [x |-> cx - 1, y |-> cy, idx |-> idx - 1],
         [x |-> cx + 1, y |-> cy, idx |-> idx + 1],
         [x |-> cx, y |-> cy - 1, idx |-> idx - w],
         [x |-> cx, y |-> cy + 1, idx |-> idx + w] >>

InImage(n, w, h) == n.x >= 0 /\ n.x < w /\ n.y >= 0 /\ n.y < h

\* Mutant: off-by-one in the radius test, one layer too many.
StopsAfter(d, r) == d > r

\* Mutant: off-by-one in the radius test, one layer short.
StopsShort(d, r) == d + 1 >= r

StopsAt(d, r) == d >= r

\* Mutant: the test for an unvisited neighbour is dropped.
ExpandableRevisit(mask, dist, n) == mask[n.idx] = 0

\* Mutant: the background test on the neighbour is dropped.
ExpandableAny(mask, dist, n) == dist[n.idx] = -1

Expandable(mask, dist, n) == mask[n.idx] = 0 /\ dist[n.idx] = -1

\* distances[n.idx] = d + 1; queue.push(n.idx), for each neighbour taken.
RECURSIVE Visit(_, _, _)
Visit(st, taken, d) ==
  IF taken = <<>>
    THEN st
    ELSE Visit([st EXCEPT !.distances[Head(taken).idx] = d + 1,
                          !.queue = Append(@, Head(taken).idx)],
               Tail(taken), d)

BfsIter(mask, w, h, r, st) ==
  LET idx == st.queue[st.head + 1]
      d == st.distances[idx]
      taken == SelectSeq(Neighbors(idx, w),
                 LAMBDA n : InImage(n, w, h) /\ Expandable(mask, st.distances, n))
  IN  IF StopsAt(d, r)
        THEN [st EXCEPT !.head = st.head + 1]
        ELSE Visit([st EXCEPT !.head = st.head + 1], taken, d)

\* The loop run to its end (morphology.ts 127-152).
RECURSIVE BfsRun(_, _, _, _, _)
BfsRun(mask, w, h, r, st) ==
  IF st.head >= Len(st.queue)
    THEN st
    ELSE BfsRun(mask, w, h, r, BfsIter(mask, w, h, r, st))

\* The passes of the loop that take the worklist entries at distance d0, the
\* layer at the head of the worklist (morphology.ts 127-152).
RECURSIVE BfsLayerRun(_, _, _, _, _, _)
BfsLayerRun(mask, w, h, r, st, d0) ==
  IF st.head >= Len(st.queue) \/ st.distances[st.queue[st.head + 1]] # d0
    THEN st
    ELSE BfsLayerRun(mask, w, h, r, BfsIter(mask, w, h, r, st), d0)

\* The distance field the generator computes for a mask and a radius.
FinalDistances(mask, w, h, r) ==
  BfsRun(mask, w, h, r,
         [queue |-> SeedQueue(mask, w, h),
          head |-> 0,
          distances |-> SeedDistances(mask, w, h)]).distances

\* --- painting (morphology.ts 155-169)
\* Math.round(a * (1 - (d - 1) / radius * 0.5)), in exact arithmetic:
\* a * (2r - (d - 1)) / 2r rounded half up.
Alpha(a, d, r) == (2 * a * (2 * r - (d - 1)) + 2 * r) \div (4 * r)

\* Mutant: the outermost layer is left out.
InRingStrict(d, r) == d > 0 /\ d < r

\* Mutant: only the contour at distance r is painted.
InRingContour(d, r) == d > 0 /\ d = r

InRing(d, r) == d > 0 /\ d <= r

PaintImage(dist, r, c) ==
  [i \in DOMAIN dist |->
     IF InRing(dist[i], r)
       THEN <<c[1], c[2], c[3], Alpha(c[4], dist[i], r)>>
       ELSE Transparent]

\* The pixels the generator paints for a mask and a radius.
RingOf(mask, w, h, r) ==
  UNION {{i \in PixelsOf(w, h) : InRing(dist[i], r)} :
           dist \in {FinalDistances(mask, w, h, r)}}

\* --- the raster path's own extraction (morphology.ts 237-295)
\* morphology.ts 245-250
RasterIsEdge(mask, w, h, idx) ==
  LET x == idx % w
      y == idx \div w
  IN  \/ (x > 0 /\ mask[idx - 1] = 0)
      \/ (x < w - 1 /\ mask[idx + 1] = 0)
      \/ (y > 0 /\ mask[idx - w] = 0)
      \/ (y < h - 1 /\ mask[idx + w] = 0)

\* morphology.ts 238-257: queue and distances after the scan
RasterSeeds(mask, w, h) ==
  LET seeds == SelectSeq([k \in 1..(w * h) |-> k - 1],
                 LAMBDA idx : mask[idx] = 1 /\ RasterIsEdge(mask, w, h, idx))
  IN  [queue |-> seeds,
       head |-> 0,
       distances |-> [i \in PixelsOf(w, h) |->
                        IF \E k \in 1..Len(seeds) : seeds[k] = i THEN 0 ELSE -1]]

\* Mutant: the radius test of the raster path lets one more layer through.
RasterStopsAfter(d, r) == d > r

\* morphology.ts 263
RasterStopsAt(d, r) == d >= r

\* morphology.ts 260-282: one pass of the while loop
RasterIter(mask, w, h, r, st) ==
  LET idx == st.queue[st.head + 1]
      d == st.distances[idx]
      cx == idx % w
      cy == idx \div w
      neighbors == << [x |-> cx - 1, y |-> cy, idx |-> idx - 1],
                      [x |-> cx + 1, y |-> cy, idx |-> idx + 1],
                      [x |-> cx, y |-> cy - 1, idx |-> idx - w],
                      [x |-> cx, y |-> cy + 1, idx |-> idx + w] >>
      taken == SelectSeq(neighbors,
                 LAMBDA n : /\ n.x >= 0 /\ n.x < w /\ n.y >= 0 /\ n.y < h
                            /\ mask[n.idx] = 0 /\ st.distances[n.idx] = -1)
  IN  IF RasterStopsAt(d, r)
        THEN [st EXCEPT !.head = st.head + 1]
        ELSE Visit([st EXCEPT !.head = st.head + 1], taken, d)

RECURSIVE RasterRun(_, _, _, _, _)
RasterRun(mask, w, h, r, st) ==
  IF st.head >= Len(st.queue)
    THEN st
    ELSE RasterRun(mask, w, h, r, RasterIter(mask, w, h, r, st))

\* morphology.ts 237-283: the distance field of the raster path
RasterDistances(mask, w, h, r) ==
  RasterRun(mask, w, h, r, RasterSeeds(mask, w, h)).distances

\* morphology.ts 285-295, alpha as at 289
RasterPaint(dist, r, c) ==
  [i \in DOMAIN dist |->
     IF dist[i] > 0 /\ dist[i] <= r
       THEN <<c[1], c[2], c[3], (2 * c[4] * (2 * r - (dist[i] - 1)) + 2 * r) \div (4 * r)>>
       ELSE Transparent]

\* --- the older raster implementation (part_007 83-178)
\* part_007 92-124: the scan only fills the queue;
\* part_007 127-133: distances are -1, then 0 at each queued index
OldSeeds(mask, w, h) ==
  LET seeds == SelectSeq([k \in 1..(w * h) |-> k - 1],
                 LAMBDA idx :
                   /\ mask[idx] = 1
                   /\ \/ (idx % w > 0 /\ mask[idx - 1] = 0)
                      \/ (idx % w < w - 1 /\ mask[idx + 1] = 0)
                      \/ (idx \div w > 0 /\ mask[idx - w] = 0)
                      \/ (idx \div w < h - 1 /\ mask[idx + w] = 0))
  IN  [queue |-> seeds,
       head |-> 0,
       distances |-> [i \in PixelsOf(w, h) |->
                        IF \E k \in 1..Len(seeds) : seeds[k] = i THEN 0 ELSE -1]]

\* part_007 135-163: one pass of the while loop
OldIter(mask, w, h, r, st) ==
  LET idx == st.queue[st.head + 1]
      d == st.distances[idx]
      cx == idx % w
      cy == idx \div w
      neighbors == << [x |-> cx - 1, y |-> cy, idx |-> idx - 1],
                      [x |-> cx + 1, y |-> cy, idx |-> idx + 1],
                      [x |-> cx, y |-> cy - 1, idx |-> idx - w],
                      [x |-> cx, y |-> cy + 1, idx |-> idx + w] >>
      taken == SelectSeq(neighbors,
                 LAMBDA n : /\ n.x >= 0 /\ n.x < w /\ n.y >= 0 /\ n.y < h
                            /\ mask[n.idx] = 0 /\ st.distances[n.idx] = -1)
  IN  IF d >= r
        THEN [st EXCEPT !.head = st.head + 1]
        ELSE Visit([st EXCEPT !.head = st.head + 1], taken, d)

RECURSIVE OldRun(_, _, _, _, _)
OldRun(mask, w, h, r, st) ==
  IF st.head >= Len(st.queue)
    THEN st
    ELSE OldRun(mask, w, h, r, OldIter(mask, w, h, r, st))

\* part_007 167-178: the ring pixels get the colour with its alpha unchanged
OldPaint(mask, w, h, r, c) ==
  LET dist == OldRun(mask, w, h, r, OldSeeds(mask, w, h)).distances
  IN  [i \in PixelsOf(w, h) |-> IF dist[i] > 0 /\ dist[i] <= r THEN c ELSE Transparent]

\* ------------------------------------------------------------------ actions
GenInit ==
  /\ source \in {"annotation", "mask"}
  /\ pc = "fetch"
  /\ imageWidth \in 1..MaxW
  /\ imageHeight \in 1..MaxH
  /\ imageWidth * imageHeight <= MaxPixels
  /\ radius \in 0..MaxRadius
  /\ color \in Colors
  /\ annotationData = NoAnnotation
  /\ maskPixels = NoPixels
  /\ binaryMask = [i \in Pixels |-> 0]
  /\ foregroundCount = 0
  /\ queue = <<>>
  /\ head = 0
  /\ distances = [i \in Pixels |-> -1]
  /\ ringImageData = NoPixels
  /\ result = "none"
  /\ error = ""
  /\ previous = NoCall
  /\ CallsIdle

\* Mutant: the failure is recorded but the generator goes on to build a mask.
RejectIgnored(msg) ==
  /\ pc' = "build"
  /\ error' = msg

Reject(msg) ==
  /\ pc' = "rejected"
  /\ error' = msg

\* morphology.ts 42-46: await fetch(jsonUrl); response.ok; response.json()
FetchAnnotation ==
  /\ source = "annotation"
  /\ pc = "fetch"
  /\ \/ /\ Reject("Failed to fetch annotation")
        /\ UNCHANGED annotationData
     \/ /\ \E data \in {NoAnnotation}
                  \cup {[hasShapes |-> TRUE, shapes |-> a] :
                          a \in AnnotationsOn(imageWidth, imageHeight)} :
             annotationData' = data
        /\ pc' = "build"
        /\ UNCHANGED error
  /\ UNCHANGED nonGenVars
  /\ UNCHANGED <<source, imageWidth, imageHeight, radius, color, maskPixels,
                 binaryMask, foregroundCount, queue, head, distances,
                 ringImageData, result>>

\* morphology.ts 187-191, 305: img.onload / img.onerror
LoadMaskImage ==
  /\ source = "mask"
  /\ pc = "fetch"
  /\ \/ /\ Reject("Failed to load mask image")
        /\ UNCHANGED maskPixels
     \/ /\ \E c \in SUBSET Pixels : maskPixels' = RasterImage(Pixels, c)
        /\ pc' = "build"
        /\ UNCHANGED error
  /\ UNCHANGED nonGenVars
  /\ UNCHANGED <<source, imageWidth, imageHeight, radius, color, annotationData,
                 binaryMask, foregroundCount, queue, head, distances,
                 ringImageData, result>>

\* Mutant: the empty-mask check is missing.
FailsNever(count) == FALSE

FailsOnEmpty(count) == count = 0

\* morphology.ts 48-98: shapes check, canvas context, polygon fill, binarisation,
\* foreground count.
BuildMaskFromAnnotation ==
  /\ source = "annotation"
  /\ pc = "build"
  /\ IF ~annotationData.hasShapes \/ Len(annotationData.shapes) = 0
       THEN /\ Reject("No shapes found in annotation")
            /\ UNCHANGED <<binaryMask, foregroundCount>>
       ELSE \/ /\ Reject("Could not get canvas context")
               /\ UNCHANGED <<binaryMask, foregroundCount>>
            \/ LET mask == DrawMask(annotationData.shapes, Pixels)
                   count == CountForeground(mask)
               IN  /\ binaryMask' = mask
                   /\ foregroundCount' = count
                   /\ IF FailsOnEmpty(count)
                        THEN Reject("No foreground pixels found in mask")
                        ELSE pc' = "seed" /\ UNCHANGED error
  /\ UNCHANGED nonGenVars
  /\ UNCHANGED <<source, imageWidth, imageHeight, radius, color, annotationData,
                 maskPixels, queue, head, distances, ringImageData, result>>

\* morphology.ts 192-235: canvas context, drawImage, foreground extraction, count.
BuildMaskFromImage ==
  /\ source = "mask"
  /\ pc = "build"
  /\ \/ /\ Reject("Could not get canvas context")
        /\ UNCHANGED <<binaryMask, foregroundCount>>
     \/ LET mask == ExtractMask(maskPixels, Pixels)
            count == CountForeground(mask)
        IN  /\ binaryMask' = mask
            /\ foregroundCount' = count
            /\ IF FailsOnEmpty(count)
                 THEN Reject("No foreground pixels found in mask")
                 ELSE pc' = "seed" /\ UNCHANGED error
  /\ UNCHANGED nonGenVars
  /\ UNCHANGED <<source, imageWidth, imageHeight, radius, color, annotationData,
                 maskPixels, queue, head, distances, ringImageData, result>>

\* morphology.ts 101-122 (and 238-257)
SeedScan ==
  /\ pc = "seed"
  /\ queue' = SeedQueue(binaryMask, imageWidth, imageHeight)
  /\ \E fresh \in {AllocDistances(distances, Pixels)} :
        distances' = [i \in Pixels |->
                        IF IsSeed(binaryMask, imageWidth, imageHeight, i)
                          THEN 0 ELSE fresh[i]]
  /\ head' = 0
  /\ pc' = "bfs"
  /\ UNCHANGED nonGenVars
  /\ UNCHANGED <<source, imageWidth, imageHeight, radius, color, annotationData,
                 maskPixels, binaryMask, foregroundCount, ringImageData, result,
                 error>>

\* morphology.ts 128-152 (and 260-283): one pass of the while loop
BfsStep ==
  /\ pc = "bfs"
  /\ head < Len(queue)
  /\ LET st == BfsIter(binaryMask, imageWidth, imageHeight, radius,
                       [queue |-> queue, head |-> head, distances |-> distances])
     IN  /\ queue' = st.queue
         /\ head' = st.head
         /\ distances' = st.distances
  /\ UNCHANGED nonGenVars
  /\ UNCHANGED <<source, pc, imageWidth, imageHeight, radius, color,
                 annotationData, maskPixels, binaryMask, foregroundCount,
                 ringImageData, result, error>>

\* morphology.ts 128-152 (and 260-283): the passes of the while loop over one
\* layer of the worklist, the loop being synchronous
BfsLayer ==
  /\ pc = "bfs"
  /\ head < Len(queue)
  /\ \E st \in {BfsLayerRun(binaryMask, imageWidth, imageHeight, radius,
                             [queue |-> queue, head |-> head, distances |-> distances],
                             distances[queue[head + 1]])} :
        /\ queue' = st.queue
        /\ head' = st.head
        /\ distances' = st.distances
  /\ UNCHANGED nonGenVars
  /\ UNCHANGED <<source, pc, imageWidth, imageHeight, radius, color,
                 annotationData, maskPixels, binaryMask, foregroundCount,
                 ringImageData, result, error>>

\* morphology.ts 155-174 (and 285-298): loop exit, painting, toDataURL
PaintRing ==
  /\ pc = "bfs"
  /\ head >= Len(queue)
  /\ ringImageData' = PaintImage(distances, radius, color)
  /\ result' = "image"
  /\ pc' = "resolved"
  /\ UNCHANGED nonGenVars
  /\ UNCHANGED <<source, imageWidth, imageHeight, radius, color, annotationData,
                 maskPixels, binaryMask, foregroundCount, queue, head, distances,
                 error>>

GenNext ==
  \/ FetchAnnotation
  \/ LoadMaskImage
  \/ BuildMaskFromAnnotation
  \/ BuildMaskFromImage
  \/ SeedScan
  \/ BfsStep
  \/ PaintRing

\* A second call of the generator by the same caller, on the same canvas,
\* after the first has resolved (morphology.ts 34-40). Its locals do not
\* exist before their declarations run: until then the variables keep what
\* the first call left.
Reinvoke ==
  /\ pc = "resolved"
  /\ ~previous.called
  /\ previous' = [called |-> TRUE, mask |-> binaryMask, radius |-> radius,
                   color |-> color, output |-> ringImageData]
  /\ pc' = "fetch"
  /\ radius' \in 0..MaxRadius
  /\ color' \in Colors
  /\ annotationData' = NoAnnotation
  /\ maskPixels' = NoPixels
  /\ result' = "none"
  /\ error' = ""
  /\ UNCHANGED <<viewerVars, callVars>>
  /\ UNCHANGED <<source, imageWidth, imageHeight, binaryMask, foregroundCount,
                 queue, head, distances, ringImageData>>

\* The generator at rest, for the specifications of the other parts.
GenOff ==
  /\ source = "annotation"
  /\ pc = "fetch"
  /\ imageWidth = 1
  /\ imageHeight = 1
  /\ radius = 0
  /\ color = Orange
  /\ annotationData = NoAnnotation
  /\ maskPixels = NoPixels
  /\ binaryMask = [i \in Pixels |-> 0]
  /\ foregroundCount = 0
  /\ queue = <<>>
  /\ head = 0
  /\ distances = [i \in Pixels |-> -1]
  /\ ringImageData = NoPixels
  /\ result = "none"
  /\ error = ""
  /\ previous = NoCall

GenIdle == GenOff /\ CallsIdle

\* ------------------------------------------------------ viewer definitions
\* Patients of the list; C has no annotation file (json_url = "").
Patients == {"A", "B", "C"}

JsonUrl(p) == IF p = "C" THEN "" ELSE p

Jobs == [patient : Patients, live : BOOLEAN]

NoJobs == [j \in Jobs |-> 0]

\* patientConceptStates.get(id) === undefined
Unsaved == [c1 |-> -1]

\* getConceptStateFromPatient on the patients of the list: A has concept
\* features (Ki-67 60%, moderately differentiated), B and C have none.
PatientData(p) ==
  IF p = "A"
    THEN [hasFeatures |-> TRUE,
          features |-> [ki67 |-> Text(SixtyPercent), cps |-> NoText, pd1 |-> NoText,
                        foxp3 |-> NoText, cd3 |-> NoText, cd4 |-> NoText,
                        cd8 |-> NoText, differentiation |-> Text(<<"M", "o", "d">>),
                        lauren |-> NoText, vascular |-> NoText, neural |-> NoText]]
    ELSE NoFeatures

FromPatient(p) == GetConceptStateFromPatient(PatientData(p))

\* The slider and select changes of ConceptReasoning: onChange(key, value).
SliderChanges == {<<"c1", 80>>, <<"c1", 45>>, <<"differentiation", 4>>}

\* part_006 140-158: the selection effect of Home for patient p; after a
\* first load it runs again on the new map and finds the state it saved.
SelectionEffect(p, map) ==
  IF map[p] # Unsaved
    THEN [state |-> map[p], map |-> map]
    ELSE [state |-> FromPatient(p), map |-> [map EXCEPT ![p] = FromPatient(p)]]

\* No load is aborted with its catch still to run.
NoLoad == [patient |-> "none", live |-> FALSE]

InflightCount(bag) ==
  LET RECURSIVE Sum(_)
      Sum(S) == IF S = {} THEN 0
                ELSE LET j == CHOOSE x \in S : TRUE IN bag[j] + Sum(S \ {j})
  IN  Sum(Jobs)

Started(bag, p, n) ==
  IF p = "none" THEN bag
  ELSE [bag EXCEPT ![[patient |-> p, live |-> TRUE]] = @ + n]

Finished(bag, j) == [bag EXCEPT ![j] = @ - 1]

\* Unmount: the promises of the unmounted instance stay pending, but their
\* callbacks set the state of a component that is gone.
Orphaned(bag) ==
  [j \in Jobs |-> IF j.live THEN 0
                  ELSE bag[j] + bag[[patient |-> j.patient, live |-> TRUE]]]

\* Mutant: the viewer is mounted without a key.
ViewerKeyNone(p) == "none"

\* Home: <UltrasoundViewer key={selectedPatient?.id} .../>
ViewerKey(p) == p

\* Mutant: the effect never clears the ring.
RingEffectNoClear(show, p, metrics, ring) ==
  IF show /\ p # "none" /\ JsonUrl(p) # "" /\ metrics # "none"
    THEN [ring |-> ring, starts |-> 1]
    ELSE [ring |-> ring, starts |-> 0]

\* UltrasoundViewer.tsx 201-226: one run of the ring effect. starts = 1 when it
\* calls generatePeritumoralRingFromAnnotation for p.
RingEffect(show, p, metrics, ring) ==
  IF show /\ p # "none" /\ JsonUrl(p) # "" /\ metrics # "none"
    THEN [ring |-> ring, starts |-> 1]
    ELSE IF ~show
      THEN [ring |-> "none", starts |-> 0]
      ELSE [ring |-> ring, starts |-> 0]

\* setImageMetrics re-renders unless it sets null over null.
MetricsChanged(old, new) == ~(old = "none" /\ new = "none")

\* The view modes; overlay and heatmap are handled as original is by the
\* handlers below.
Modes == {"original", "split"}

\* The image of every patient, and the box extractAnnotationBbox gives on
\* the annotation of A (a small lesion) and of B (a lesion that fills most
\* of the image).
NaturalSize == [naturalWidth |-> 1000, naturalHeight |-> 800]

AnnotationBox(b) ==
  IF b = "A" THEN [x1 |-> 400, y1 |-> 300, x2 |-> 500, y2 |-> 400]
  ELSE [x1 |-> 100, y1 |-> 100, x2 |-> 900, y2 |-> 700]

\* roiZoomParams === null
NoZoomParams == [scale |-> 0]

\* UltrasoundViewer.tsx 69-107: roiZoomParams, its scale in thousandths
\* (rounded down). The padded size is the size times 1 + 0.2 * 2 = 14 / 10;
\* a box without width or height gives Infinity.
ScaleFor(natural, size) ==
  IF size = 0 THEN PosInf ELSE Num((natural * Milli * 10) \div (size * 14))

RoiZoomParams(zoom, bbox, metrics) ==
  IF ~zoom \/ bbox = "none" \/ metrics = "none" THEN NoZoomParams
  ELSE LET box == AnnotationBox(bbox)
           scaleX == ScaleFor(NaturalSize.naturalWidth, box.x2 - box.x1)
           scaleY == ScaleFor(NaturalSize.naturalHeight, box.y2 - box.y1)
       IN  [scale |-> MathMin(MathMin(scaleX, scaleY), Num(4 * Milli)).v]

\* UltrasoundViewer.tsx 129-134: the effect that runs when zoomToROI or
\* roiZoomParams has changed; the scale it leaves.
ZoomEffect(zoom, bbox, metrics, old) ==
  IF zoom /\ RoiZoomParams(zoom, bbox, metrics) # NoZoomParams
    THEN RoiZoomParams(zoom, bbox, metrics).scale
    ELSE old

\* e.deltaY of the wheel events
WheelDeltas == {-2000, 2000}

Step(op, p, live) ==
  hist' = [op |-> op, patient |-> p, live |-> live,
           ringBefore |-> ringImageUrl, showBefore |-> showRing,
           patientBefore |-> selectedPatient, bboxBefore |-> annotationBbox]

ViewerInit ==
  /\ selectedPatient = "none"
  /\ showRing = FALSE
  /\ ringImageUrl = "none"
  /\ imageMetrics = "none"
  /\ language = "zh"
  /\ inflight = NoJobs
  /\ annotationBbox = "none"
  /\ loadPending = FALSE
  /\ abortedLoad = NoLoad
  /\ conceptState = DEFAULT_STATE
  /\ patientConceptStates = [p \in Patients |-> Unsaved]
  /\ scale = Milli
  /\ zoomToROI = FALSE
  /\ mode = "original"
  /\ hist = [op |-> "mount", patient |-> "none", live |-> FALSE,
             ringBefore |-> "none", showBefore |-> FALSE, patientBefore |-> "none",
             bboxBefore |-> "none"]

\* Home: onSelect / onSelectSibling = setSelectedPatient (part_006 179, 205).
\* A new key remounts the viewer (fresh state, mount effects); the same key
\* re-renders it with a new patient object and re-runs the [patient] effects:
\* updateImageMetrics (152-154), the annotation effect (168-199) and the ring
\* effect (201-226). Either way the cleanup of the annotation effect aborts
\* the pending load, and the effect starts loadAnnotations for p. The abort
\* rejects the pending fetch at once: its catch runs, as a microtask, before
\* any later event, so no selection is handled while one is due.
SelectPatient(p) ==
  /\ UNCHANGED nonViewerVars
  /\ abortedLoad = NoLoad
  /\ selectedPatient' = p
  /\ abortedLoad' = IF loadPending
                       THEN [patient |-> selectedPatient,
                             live |-> ViewerKey(p) = ViewerKey(selectedPatient)]
                       ELSE NoLoad
  /\ loadPending' = TRUE
  /\ annotationBbox' = IF ViewerKey(p) # ViewerKey(selectedPatient)
                          THEN "none"
                          ELSE annotationBbox
  /\ \E e \in {SelectionEffect(p, patientConceptStates)} :
        /\ conceptState' = e.state
        /\ patientConceptStates' = e.map
  /\ UNCHANGED language
  /\ Step("select", p, FALSE)
  /\ \E m \in {"none", "set"} :
        /\ imageMetrics' = m
        /\ IF ViewerKey(p) # ViewerKey(selectedPatient)
             THEN /\ scale' = Milli
                  /\ zoomToROI' = FALSE
                  /\ mode' = "original"
             ELSE /\ scale' = IF MetricsChanged(imageMetrics, m)
                                THEN ZoomEffect(zoomToROI, annotationBbox, m, scale)
                                ELSE scale
                  /\ UNCHANGED <<zoomToROI, mode>>
        /\ IF ViewerKey(p) # ViewerKey(selectedPatient)
             THEN /\ showRing' = FALSE
                  /\ ringImageUrl' = RingEffect(FALSE, p, m, "none").ring
                  /\ inflight' = Orphaned(inflight)
             ELSE LET e1 == RingEffect(showRing, p, imageMetrics, ringImageUrl)
                      e2 == IF MetricsChanged(imageMetrics, m)
                              THEN RingEffect(showRing, p, m, e1.ring)
                              ELSE [ring |-> e1.ring, starts |-> 0]
                  IN  /\ showRing' = showRing
                      /\ ringImageUrl' = e2.ring
                      /\ inflight' = Started(inflight, p, e1.starts + e2.starts)
  /\ InflightCount(inflight') <= MaxInflight

\* UltrasoundViewer.tsx 875-877: the ring button, disabled without json_url.
ToggleRing ==
  /\ UNCHANGED nonViewerVars
  /\ UNCHANGED <<loadVars, homeVars, zoomVars>>
  /\ selectedPatient # "none"
  /\ JsonUrl(selectedPatient) # ""
  /\ showRing' = ~showRing
  /\ LET e == RingEffect(~showRing, selectedPatient, imageMetrics, ringImageUrl)
     IN  /\ ringImageUrl' = e.ring
         /\ inflight' = Started(inflight, selectedPatient, e.starts)
  /\ InflightCount(inflight') <= MaxInflight
  /\ Step(IF showRing THEN "toggleOff" ELSE "toggleOn", selectedPatient, TRUE)
  /\ UNCHANGED <<selectedPatient, imageMetrics, language>>

\* UltrasoundViewer.tsx 56-66 (reset button, Ctrl+R): setShowRing(false).
ResetAdjustments ==
  /\ UNCHANGED nonViewerVars
  /\ UNCHANGED <<loadVars, homeVars>>
  /\ showRing' = FALSE
  /\ ringImageUrl' = IF showRing
                        THEN RingEffect(FALSE, selectedPatient, imageMetrics,
                                        ringImageUrl).ring
                        ELSE ringImageUrl
  /\ scale' = Milli
  /\ zoomToROI' = FALSE
  /\ UNCHANGED mode
  /\ Step("reset", selectedPatient, TRUE)
  /\ UNCHANGED <<selectedPatient, imageMetrics, language, inflight>>

\* UltrasoundViewer.tsx 136-159, 522: image onLoad, window resize, mode change.
UpdateImageMetrics ==
  /\ UNCHANGED nonViewerVars
  /\ UNCHANGED <<loadVars, homeVars>>
  /\ selectedPatient # "none"
  /\ \E m \in {"none", "set"} :
        /\ MetricsChanged(imageMetrics, m)
        /\ imageMetrics' = m
        /\ scale' = ZoomEffect(zoomToROI, annotationBbox, m, scale)
        /\ LET e == RingEffect(showRing, selectedPatient, m, ringImageUrl)
           IN  /\ ringImageUrl' = e.ring
               /\ inflight' = Started(inflight, selectedPatient, e.starts)
  /\ InflightCount(inflight') <= MaxInflight
  /\ Step("metrics", selectedPatient, TRUE)
  /\ UNCHANGED <<selectedPatient, showRing, language, zoomToROI, mode>>

\* SettingsContext setLanguage: language is a dependency of the ring effect.
ChangeLanguage ==
  /\ UNCHANGED nonViewerVars
  /\ UNCHANGED <<loadVars, homeVars, zoomVars>>
  /\ language' = IF language = "zh" THEN "en" ELSE "zh"
  /\ LET e == RingEffect(showRing, selectedPatient, imageMetrics, ringImageUrl)
     IN  /\ ringImageUrl' = e.ring
         /\ inflight' = Started(inflight, selectedPatient, e.starts)
  /\ InflightCount(inflight') <= MaxInflight
  /\ Step("language", selectedPatient, TRUE)
  /\ UNCHANGED <<selectedPatient, showRing, imageMetrics>>

\* UltrasoundViewer.tsx 214-217: .then(url => setRingImageUrl(url)).
GenResolve(j) ==
  /\ UNCHANGED nonViewerVars
  /\ UNCHANGED <<loadVars, homeVars, zoomVars>>
  /\ inflight[j] > 0
  /\ inflight' = Finished(inflight, j)
  /\ ringImageUrl' = IF j.live THEN j.patient ELSE ringImageUrl
  /\ Step("resolve", j.patient, j.live)
  /\ UNCHANGED <<selectedPatient, showRing, imageMetrics, language>>

\* UltrasoundViewer.tsx 218-222: .catch(err => { toast; setShowRing(false) }).
\* The ring effect re-runs only when showRing changes.
GenReject(j) ==
  /\ UNCHANGED nonViewerVars
  /\ UNCHANGED <<loadVars, homeVars, zoomVars>>
  /\ inflight[j] > 0
  /\ inflight' = Finished(inflight, j)
  /\ IF j.live
       THEN /\ showRing' = FALSE
            /\ ringImageUrl' = IF showRing
                                  THEN RingEffect(FALSE, selectedPatient, imageMetrics,
                                                  ringImageUrl).ring
                                  ELSE ringImageUrl
       ELSE UNCHANGED <<showRing, ringImageUrl>>
  /\ Step("reject", j.patient, j.live)
  /\ UNCHANGED <<selectedPatient, imageMetrics, language>>

\* What extractAnnotationBbox can give on the annotation of p: a box, or null
\* when it holds no valid point.
BoxFrom(p) == {p, "none"}

\* UltrasoundViewer.tsx 179-186: the fetch of the mounted viewer's pending
\* load resolved with a parsable annotation.
LoadSucceeds ==
  /\ UNCHANGED nonViewerVars
  /\ UNCHANGED homeVars
  /\ loadPending
  /\ abortedLoad = NoLoad
  /\ JsonUrl(selectedPatient) # ""
  /\ loadPending' = FALSE
  /\ \E b \in BoxFrom(selectedPatient) :
        /\ annotationBbox' = b
        /\ scale' = ZoomEffect(zoomToROI, b, imageMetrics, scale)
  /\ UNCHANGED <<zoomToROI, mode>>
  /\ Step("loaded", selectedPatient, TRUE)
  /\ UNCHANGED <<selectedPatient, showRing, ringImageUrl, imageMetrics, language,
                 inflight, abortedLoad>>

\* UltrasoundViewer.tsx 187-193: the fetch failed, the response was not ok or
\* not JSON, or extractAnnotationBbox threw; toast and setAnnotationBbox(null).
LoadFails ==
  /\ UNCHANGED nonViewerVars
  /\ UNCHANGED <<homeVars, zoomVars>>
  /\ loadPending
  /\ abortedLoad = NoLoad
  /\ loadPending' = FALSE
  /\ annotationBbox' = "none"
  /\ Step("loadFailed", selectedPatient, TRUE)
  /\ UNCHANGED <<selectedPatient, showRing, ringImageUrl, imageMetrics, language,
                 inflight, abortedLoad>>

\* UltrasoundViewer.tsx 187-193: the catch of an aborted load (AbortError, no
\* toast); setAnnotationBbox(null) on the instance that started it, which has
\* no effect once that instance is unmounted.
LoadAborted ==
  /\ UNCHANGED nonViewerVars
  /\ UNCHANGED <<homeVars, zoomVars>>
  /\ abortedLoad # NoLoad
  /\ abortedLoad' = NoLoad
  /\ annotationBbox' = IF abortedLoad.live THEN "none" ELSE annotationBbox
  /\ Step("loadAborted", abortedLoad.patient, abortedLoad.live)
  /\ UNCHANGED <<selectedPatient, showRing, ringImageUrl, imageMetrics, language,
                 inflight, loadPending>>

\* part_006 122-138: handleStateChange(key, value). With a patient selected
\* the new state is saved in the map, and the selection effect, run again on
\* the new map, sets the state it finds there.
HandleStateChange(key, value) ==
  /\ UNCHANGED nonViewerVars
  /\ UNCHANGED <<loadVars, zoomVars>>
  /\ LET newState == [conceptState EXCEPT ![key] = value]
     IN  IF selectedPatient # "none"
           THEN \E e \in {SelectionEffect(selectedPatient,
                             [patientConceptStates EXCEPT ![selectedPatient] = newState])} :
                   /\ conceptState' = e.state
                   /\ patientConceptStates' = e.map
           ELSE /\ conceptState' = newState
                /\ UNCHANGED patientConceptStates
  /\ Step("slider", selectedPatient, TRUE)
  /\ UNCHANGED <<selectedPatient, showRing, ringImageUrl, imageMetrics, language,
                 inflight>>

\* part_006 214: onReset={() => setConceptState(DEFAULT_STATE)}. Neither
\* dependency of the selection effect changes, so it does not run.
OnReset ==
  /\ UNCHANGED nonViewerVars
  /\ UNCHANGED <<loadVars, zoomVars>>
  /\ conceptState' = DEFAULT_STATE
  /\ Step("conceptReset", selectedPatient, TRUE)
  /\ UNCHANGED <<selectedPatient, showRing, ringImageUrl, imageMetrics, language,
                 inflight, patientConceptStates>>

\* UltrasoundViewer.tsx 287-293: handleWheel; delta = -e.deltaY * 0.001.
HandleWheel(deltaY) ==
  /\ UNCHANGED nonViewerVars
  /\ UNCHANGED <<loadVars, homeVars>>
  /\ selectedPatient # "none"
  /\ scale' = IF mode = "split" THEN scale
              ELSE MathMin(MathMax(Num(Milli), Num(scale - deltaY)), Num(5 * Milli)).v
  /\ Step("wheel", selectedPatient, TRUE)
  /\ UNCHANGED <<selectedPatient, showRing, ringImageUrl, imageMetrics, language,
                 inflight, zoomToROI, mode>>

\* UltrasoundViewer.tsx 110-134, 855-857: the ROI zoom button, disabled
\* without a box. Leaving the mode sets the scale to 1; entering it sets
\* zoomToROI, and the effect of 129-134 then sets the scale of roiZoomParams.
ToggleZoomToROI ==
  /\ UNCHANGED nonViewerVars
  /\ UNCHANGED <<loadVars, homeVars>>
  /\ annotationBbox # "none"
  /\ zoomToROI' = ~zoomToROI
  /\ scale' = IF zoomToROI THEN Milli
              ELSE ZoomEffect(TRUE, annotationBbox, imageMetrics, scale)
  /\ Step("roiZoom", selectedPatient, TRUE)
  /\ UNCHANGED <<selectedPatient, showRing, ringImageUrl, imageMetrics, language,
                 inflight, mode>>

\* UltrasoundViewer.tsx 246-264, 826-834: setMode by key or button. mode is
\* a dependency of the effect that calls updateImageMetrics (152-154).
SetMode(m) ==
  /\ UNCHANGED nonViewerVars
  /\ UNCHANGED <<loadVars, homeVars>>
  /\ selectedPatient # "none"
  /\ m # mode
  /\ mode' = m
  /\ \E mt \in {"none", "set"} :
        /\ imageMetrics' = mt
        /\ IF MetricsChanged(imageMetrics, mt)
             THEN /\ scale' = ZoomEffect(zoomToROI, annotationBbox, mt, scale)
                  /\ LET e == RingEffect(showRing, selectedPatient, mt, ringImageUrl)
                     IN  /\ ringImageUrl' = e.ring
                         /\ inflight' = Started(inflight, selectedPatient, e.starts)
             ELSE UNCHANGED <<scale, ringImageUrl, inflight>>
  /\ InflightCount(inflight') <= MaxInflight
  /\ Step("mode", selectedPatient, TRUE)
  /\ UNCHANGED <<selectedPatient, showRing, language, zoomToROI>>

\* The viewer's zoom: selections, annotation loads, image metrics, wheel,
\* ROI zoom button, reset button and view mode.
ZoomNext ==
  \/ \E p \in Patients : SelectPatient(p)
  \/ LoadSucceeds
  \/ LoadFails
  \/ LoadAborted
  \/ UpdateImageMetrics
  \/ ResetAdjustments
  \/ \E d \in WheelDeltas : HandleWheel(d)
  \/ ToggleZoomToROI
  \/ \E m \in Modes : SetMode(m)

HomeNext ==
  \/ \E p \in Patients : SelectPatient(p)
  \/ LoadAborted
  \/ \E c \in SliderChanges : HandleStateChange(c[1], c[2])
  \/ OnReset

ViewerNext ==
  \/ \E p \in Patients : SelectPatient(p)
  \/ LoadSucceeds
  \/ LoadFails
  \/ LoadAborted
  \/ ToggleRing
  \/ ResetAdjustments
  \/ UpdateImageMetrics
  \/ ChangeLanguage
  \/ \E j \in Jobs : GenResolve(j)
  \/ \E j \in Jobs : GenReject(j)

\* ----------------------------------------------------------- specifications
\* The ring generator on every mask of the bounded canvases.
Init == GenInit /\ ViewerInit

Next == GenNext

Spec == Init /\ [][Next]_vars

\* The generator with its synchronous part running on: once the BFS loop is
\* entered, the next pass, and after the last pass the painting, do happen.
SpecFair == Spec /\ WF_vars(BfsStep) /\ WF_vars(PaintRing)

\* Two calls of the generator in a row, on canvases of at most MaxCallPixels.
InitTwice == Init /\ imageWidth * imageHeight <= MaxCallPixels

NextTwice == GenNext \/ Reinvoke

SpecTwice == InitTwice /\ [][NextTwice]_vars

\* The scenario of the ring on a square lesion: a 100 x 100 canvas whose
\* lesion is the pixels with 45 <= x, y < 55, given as one polygon or as a
\* mask image, with each colour and each radius up to 5. The BFS is taken a
\* layer at a time.
Scenario == [width |-> 100, height |-> 100, lo |-> 45, hi |-> 55, radius |-> 5]

Square ==
  {i \in PixelsOf(Scenario.width, Scenario.height) :
     /\ XOf(i, Scenario.width) >= Scenario.lo /\ XOf(i, Scenario.width) < Scenario.hi
     /\ YOf(i, Scenario.width) >= Scenario.lo /\ YOf(i, Scenario.width) < Scenario.hi}

ScenarioInit ==
  /\ source \in {"annotation", "mask"}
  /\ pc = "build"
  /\ imageWidth = Scenario.width
  /\ imageHeight = Scenario.height
  /\ radius \in 0..Scenario.radius
  /\ color \in Colors
  /\ annotationData =
        IF source = "annotation"
          THEN [hasShapes |-> TRUE, shapes |-> <<[npoints |-> 4, cover |-> Square]>>]
          ELSE NoAnnotation
  /\ maskPixels =
        IF source = "mask" THEN RasterImage(Pixels, Square) ELSE NoPixels
  /\ binaryMask = [i \in Pixels |-> 0]
  /\ foregroundCount = 0
  /\ queue = <<>>
  /\ head = 0
  /\ distances = [i \in Pixels |-> -1]
  /\ ringImageData = NoPixels
  /\ result = "none"
  /\ error = ""
  /\ previous = NoCall
  /\ CallsIdle
  /\ ViewerInit

ScenarioNext ==
  \/ BuildMaskFromAnnotation
  \/ BuildMaskFromImage
  \/ SeedScan
  \/ BfsLayer
  \/ PaintRing

SpecScenario == ScenarioInit /\ [][ScenarioNext]_vars

\* extractAnnotationBbox on every argument of ShapeLists.
BboxSpecInit ==
  /\ source = "annotation"
  /\ pc = "fetch"
  /\ imageWidth = 1
  /\ imageHeight = 1
  /\ radius = 0
  /\ color = Orange
  /\ annotationData = NoAnnotation
  /\ maskPixels = NoPixels
  /\ binaryMask = [i \in Pixels |-> 0]
  /\ foregroundCount = 0
  /\ queue = <<>>
  /\ head = 0
  /\ distances = [i \in Pixels |-> -1]
  /\ ringImageData = NoPixels
  /\ result = "none"
  /\ error = ""
  /\ previous = NoCall
  /\ ViewerInit
  /\ BboxInit
  /\ DiagIdle
  /\ ParseIdle
  /\ ApiIdle

SpecBbox == BboxSpecInit /\ [][BboxNext]_vars

\* calculateDiagnosis on every concept state of DiagInputs.
DiagSpecInit ==
  /\ GenOff
  /\ ViewerInit
  /\ BboxIdle
  /\ DiagInit
  /\ ParseIdle
  /\ ApiIdle

SpecDiag == DiagSpecInit /\ [][DiagNext]_vars

\* getConceptStateFromPatient on every patient of ParseInputs.
ParseSpecInit ==
  /\ GenOff
  /\ ViewerInit
  /\ BboxIdle
  /\ DiagIdle
  /\ ParseInit
  /\ ApiIdle

SpecParse == ParseSpecInit /\ [][ParseNext]_vars

\* GET of the image API on every request of ApiRequests.
ApiSpecInit ==
  /\ GenOff
  /\ ViewerInit
  /\ BboxIdle
  /\ DiagIdle
  /\ ParseIdle
  /\ ApiInit

SpecApi == ApiSpecInit /\ [][ApiNext]_vars

\* The viewer under the Home page.
ViewerSpecInit == GenIdle /\ ViewerInit

SpecViewer == ViewerSpecInit /\ [][ViewerNext]_vars

\* The Home page: selections, the concept sliders and their reset.
SpecHome == ViewerSpecInit /\ [][HomeNext]_vars

\* The zoom of the viewer.
SpecZoom == ViewerSpecInit /\ [][ZoomNext]_vars

\* ------------------------------------------------- reference definitions
\* Grid distance between two pixels under 4-connectivity.
GridDist(i, j, w) == Abs(XOf(i, w) - XOf(j, w)) + Abs(YOf(i, w) - YOf(j, w))

Foreground == {i \in Pixels : binaryMask[i] = 1}

\* Some foreground pixel lies within grid distance d of pixel i.
Near(i, d) ==
  \E j \in Pixels : binaryMask[j] = 1 /\ GridDist(i, j, imageWidth) <= d

\* d is the least grid distance from pixel i to a foreground pixel.
IsMinDist(i, d) == Near(i, d) /\ ~Near(i, d - 1)

\* Least grid distance from pixel i to a foreground pixel (Foreground # {}).
MinDist(i) ==
  CHOOSE d \in 0..(imageWidth + imageHeight) : IsMinDist(i, d)

Painted == {i \in DOMAIN ringImageData : ringImageData[i] # Transparent}

Computing == pc \in {"seed", "bfs", "resolved"}

\* ------------------------------------------------------------------ claims

\* C1: every pixel holding a BFS distance d > 0, and so every painted pixel,
\* is a background pixel whose least 4-connected grid distance to the
\* foreground is exactly d, with 1 <= d <= radius.
C1_RingDistanceExact ==
  /\ pc \in {"bfs", "resolved"} =>
        \A i \in Pixels :
          distances[i] > 0 =>
            /\ binaryMask[i] = 0
            /\ IsMinDist(i, distances[i])
            /\ distances[i] >= 1 /\ distances[i] <= radius
  /\ \A i \in Painted : pc = "resolved" /\ distances[i] > 0

C1_Witness ==
  /\ pc = "resolved"
  /\ radius = 2
  /\ \E i \in Painted : distances[i] = 2
  /\ \E i \in Painted : distances[i] = 1

\* C2: in every state of the generator, no foreground pixel (seed or
\* interior) holds a distance > 0 or is painted.
C2_RingDisjointFromForeground ==
  /\ \A i \in Pixels : binaryMask[i] = 1 => distances[i] <= 0
  /\ \A i \in DOMAIN ringImageData :
        binaryMask[i] = 1 => ringImageData[i] = Transparent

C2_Witness ==
  /\ pc = "resolved"
  /\ \E i \in Pixels : binaryMask[i] = 1 /\ distances[i] = -1
  /\ \E i \in Pixels : binaryMask[i] = 1 /\ distances[i] = 0
  /\ Painted # {}

\* C3: the output paints exactly the background pixels whose least grid
\* distance d to the foreground is in 1..radius, each with the ring colour and
\* the faded alpha for d; every other pixel is <<0, 0, 0, 0>>.
C3_RingExact ==
  pc = "resolved" =>
    \A i \in Pixels :
      IF binaryMask[i] = 0 /\ Near(i, radius)
        THEN \E d \in 1..radius :
               /\ IsMinDist(i, d)
               /\ ringImageData[i] =
                     <<color[1], color[2], color[3], Alpha(color[4], d, radius)>>
               /\ ringImageData[i][4] > 0
        ELSE ringImageData[i] = Transparent

C3_Witness ==
  /\ pc = "resolved"
  /\ Painted # {}
  /\ \E i \in Pixels : binaryMask[i] = 0 /\ MinDist(i) > radius
  /\ \E i \in Pixels : binaryMask[i] = 1 /\ ~IsEdge(binaryMask, imageWidth, imageHeight, i)

\* C4: for a fixed mask the ring grows with the radius: the ring the
\* generator paints for every smaller radius is inside the ring it has
\* painted for this radius.
C4_RingMonotoneInRadius ==
  pc = "resolved" =>
    \A r1 \in 0..(radius - 1) :
      RingOf(binaryMask, imageWidth, imageHeight, r1) \subseteq Painted

C4_Witness ==
  /\ pc = "resolved"
  /\ radius = 2
  /\ RingOf(binaryMask, imageWidth, imageHeight, 1) # {}
  /\ RingOf(binaryMask, imageWidth, imageHeight, 1) # Painted

\* C5: with radius 0 and a mask that has foreground the generator is not
\* rejected, the BFS never leaves the seeds and the output is all transparent.
C5_ZeroRadiusEmptyRing ==
  radius = 0 =>
    /\ foregroundCount > 0 => pc # "rejected"
    /\ \A i \in Pixels : distances[i] <= 0
    /\ pc \in {"bfs", "resolved"} =>
          queue = SeedQueue(binaryMask, imageWidth, imageHeight)
    /\ Painted = {}

C5_Witness ==
  /\ radius = 0
  /\ pc = "resolved"
  /\ result = "image"
  /\ \E i \in Pixels : binaryMask[i] = 0 /\ MinDist(i) = 1

\* C10: a mask without foreground, or an annotation whose shape list is
\* missing or empty, makes the generator reject: the seed scan, the BFS and
\* the painting run only on a mask with foreground, and a rejected run has
\* no image, an empty worklist, an unset distance field and no painted pixel.
C10_EmptyMaskRejects ==
  /\ Computing =>
        /\ foregroundCount > 0
        /\ Foreground # {}
        /\ source = "annotation" =>
              annotationData.hasShapes /\ Len(annotationData.shapes) > 0
  /\ pc = "rejected" =>
        /\ error # ""
        /\ result = "none"
        /\ queue = <<>>
        /\ \A i \in Pixels : distances[i] = -1
        /\ Painted = {}
  /\ result = "image" => pc = "resolved"

C10_Witness ==
  /\ pc = "rejected"
  /\ error = "No foreground pixels found in mask"
  /\ source = "annotation"
  /\ Len(annotationData.shapes) > 0

\* C6: on the 100 x 100 canvas with the 10 x 10 square lesion and radius 5
\* the painted ring has no pixel inside the square, is 5 pixels wide on each
\* of the four sides (in every row and column that crosses the square the
\* painted pixels are the 5 before and the 5 after it), reaches no pixel
\* farther than 5 from the square, and is exactly the set of pixels at grid
\* distance 1..5 from the square (240 pixels).
OffSquare(v) ==
  IF v < Scenario.lo THEN Scenario.lo - v
  ELSE IF v >= Scenario.hi THEN v - (Scenario.hi - 1) ELSE 0

SquareDist(i) == OffSquare(XOf(i, imageWidth)) + OffSquare(YOf(i, imageWidth))

BandBeside(v) ==
  \/ (v >= Scenario.lo - Scenario.radius /\ v < Scenario.lo)
  \/ (v >= Scenario.hi /\ v < Scenario.hi + Scenario.radius)

C6_SquareScenarioBand ==
  pc = "resolved" /\ radius = Scenario.radius =>
    /\ Foreground = Square
    /\ \A i \in Square : ringImageData[i] = Transparent
    /\ \A i \in Pixels :
          LET x == XOf(i, imageWidth)
              y == YOf(i, imageWidth)
              painted == ringImageData[i] # Transparent
          IN  /\ (y >= Scenario.lo /\ y < Scenario.hi) => (painted <=> BandBeside(x))
              /\ (x >= Scenario.lo /\ x < Scenario.hi) => (painted <=> BandBeside(y))
              /\ painted <=> (SquareDist(i) >= 1 /\ SquareDist(i) <= Scenario.radius)
    /\ Cardinality(Painted) = 240

C6_Witness ==
  /\ pc = "resolved"
  /\ source = "annotation"
  /\ imageWidth = 100 /\ imageHeight = 100 /\ radius = 5
  /\ Cardinality(Foreground) = 100
  /\ Painted # {}

\* C7: a ring generation still pending for the previous patient when the
\* patient is switched never becomes the displayed overlay: the displayed
\* ring was always generated for the patient in view, and the completion of
\* a generation of an unmounted viewer changes neither ring nor toggle.
C7_StaleRingDiscarded ==
  /\ ringImageUrl # "none" => ringImageUrl = selectedPatient
  /\ \A j \in Jobs : inflight[j] > 0 /\ j.live => j.patient = selectedPatient
  /\ hist.op \in {"resolve", "reject"} /\ ~hist.live =>
        ringImageUrl = hist.ringBefore /\ showRing = hist.showBefore

C7_Witness ==
  /\ hist.op = "resolve"
  /\ ~hist.live
  /\ hist.patient # selectedPatient
  /\ showRing
  /\ ringImageUrl = "none"

\* C8: after a rejected generation has been handled the ring toggle is off
\* and no ring overlay is set.
C8_RejectLeavesRingOff ==
  hist.op = "reject" /\ hist.live => ~showRing /\ ringImageUrl = "none"

\* C9: switching the toggle off leaves the ring overlay null, and so does a
\* change of patient, which also orphans every generation of the previous
\* patient (its result can no longer be installed).
C9_RingDiscarded ==
  /\ hist.op = "toggleOff" => ~showRing /\ ringImageUrl = "none"
  /\ hist.op = "select" /\ hist.patientBefore # selectedPatient =>
        /\ ringImageUrl = "none"
        /\ ~showRing
        /\ \A j \in Jobs : j.live => inflight[j] = 0

C9_Witness ==
  /\ hist.op = "select"
  /\ hist.patientBefore # selectedPatient
  /\ hist.ringBefore # "none"
  /\ JsonUrl(selectedPatient) = ""
  /\ \E j \in Jobs : inflight[j] > 0

C9_WitnessToggle ==
  /\ hist.op = "toggleOff"
  /\ hist.ringBefore # "none"

\* C11: a failed annotation fetch or mask image load rejects the generator
\* with the load error while nothing has been decoded, built or computed, and
\* as long as the fetch / load is pending no mask, worklist, distance or
\* output exists: the computation starts only after it.
LoadErrors == {"Failed to fetch annotation", "Failed to load mask image"}

NothingComputed ==
  /\ maskPixels = NoPixels
  /\ annotationData = NoAnnotation
  /\ foregroundCount = 0
  /\ \A i \in Pixels : binaryMask[i] = 0 /\ distances[i] = -1
  /\ queue = <<>>
  /\ ringImageData = NoPixels
  /\ result = "none"

C11_LoadFailureRejectsFirst ==
  /\ error \in LoadErrors => pc = "rejected" /\ NothingComputed
  /\ pc = "fetch" => error = "" /\ NothingComputed
  /\ pc \in {"build", "seed", "bfs", "resolved"} =>
        /\ error = ""
        /\ source = "mask" => DOMAIN maskPixels = Pixels

C11_Witness ==
  /\ pc = "rejected"
  /\ source = "mask"
  /\ error = "Failed to load mask image"

\* C12: a polygon with fewer than 3 points paints no pixel of the mask (every
\* foreground pixel is covered by a polygon with at least 3 points), and an
\* annotation whose polygons all have fewer than 3 points never reaches the
\* seed scan, the BFS or the painting: it is rejected without an image.
AllDegenerate ==
  /\ source = "annotation"
  /\ Len(annotationData.shapes) > 0
  /\ \A k \in 1..Len(annotationData.shapes) : annotationData.shapes[k].npoints < 3

C12_DegeneratePolygonsIgnored ==
  /\ source = "annotation" =>
        \A i \in Pixels :
          binaryMask[i] = 1 =>
            \E k \in 1..Len(annotationData.shapes) :
              /\ annotationData.shapes[k].npoints >= 3
              /\ i \in annotationData.shapes[k].cover
  /\ AllDegenerate =>
        /\ ~Computing
        /\ result = "none"
        /\ pc = "rejected" =>
              error \in {"No foreground pixels found in mask",
                         "Could not get canvas context"}

C12_Witness ==
  /\ AllDegenerate
  /\ pc = "rejected"
  /\ error = "No foreground pixels found in mask"
  /\ foregroundCount = 0

\* C13: once the seeds are set, every entry of the distance field is -1 or
\* an integer in 0..radius, and the entries equal to 0 are exactly the
\* foreground pixels with a background pixel at grid distance 1.
OnBoundary(i) ==
  /\ binaryMask[i] = 1
  /\ \E j \in Pixels : binaryMask[j] = 0 /\ GridDist(i, j, imageWidth) = 1

C13_DistanceFieldBounded ==
  pc \in {"bfs", "resolved"} =>
    \A i \in Pixels :
      /\ distances[i] \in (-1)..radius
      /\ distances[i] = 0 <=> OnBoundary(i)

C13_Witness ==
  /\ pc = "resolved"
  /\ radius = 2
  /\ \E i \in Pixels : distances[i] = -1 /\ binaryMask[i] = 0
  /\ \E i \in Pixels : distances[i] = -1 /\ binaryMask[i] = 1
  /\ \E i \in Pixels : distances[i] = radius

\* C14: the worklist never holds a pixel index twice, so it never holds more
\* than width * height entries and the read position never passes its end;
\* and a BFS that has started always reaches the resolved image.
WorklistBounded ==
  /\ \A a \in 1..Len(queue) : \A b \in 1..Len(queue) :
        queue[a] = queue[b] => a = b
  /\ \A a \in 1..Len(queue) : queue[a] \in Pixels
  /\ Len(queue) <= imageWidth * imageHeight
  /\ head <= Len(queue)

C14_BfsTerminates ==
  /\ []WorklistBounded
  /\ (pc = "bfs") ~> (pc = "resolved")

C14_Witness ==
  /\ pc = "resolved"
  /\ radius = 2
  /\ Len(queue) = imageWidth * imageHeight
  /\ Len(queue) >= 6
  /\ head = Len(queue)

\* C15: the image a call resolves with is the image of its mask, radius and
\* colour alone, whether or not another call ran before it on other inputs;
\* and a call with the mask, radius and colour of the call before it
\* resolves with the same RGBA value at every pixel.
SameInputs ==
  /\ previous.called
  /\ previous.mask = binaryMask
  /\ previous.radius = radius
  /\ previous.color = color

C15_Deterministic ==
  pc = "resolved" =>
    /\ ringImageData =
          PaintImage(FinalDistances(binaryMask, imageWidth, imageHeight, radius),
                     radius, color)
    /\ SameInputs => ringImageData = previous.output

C15_Witness ==
  /\ pc = "resolved"
  /\ SameInputs
  /\ Painted # {}

\* ------------------------------------------------------------------ C16
\* The vertices of a list of shapes that are pairs of numbers.
NumericVertices(list) ==
  UNION {{points[j] : j \in {j \in 1..Len(points) :
                               /\ points[j].iterable
                               /\ IsNumber(points[j].x)
                               /\ IsNumber(points[j].y)}} :
           points \in {list[k].points.list :
                         k \in {k \in 1..Len(list) : list[k].points.isArray}}}

IsFinite(p) == p.x.kind = "number" /\ p.y.kind = "number"

\* box is the smallest box around the vertices V.
Spans(box, V) ==
  /\ box.kind = "box"
  /\ \A p \in V : /\ ~Below(p.x, box.x1) /\ ~Below(box.x2, p.x)
                   /\ ~Below(p.y, box.y1) /\ ~Below(box.y2, p.y)
  /\ \E p \in V : p.x = box.x1
  /\ \E p \in V : p.y = box.y1
  /\ \E p \in V : p.x = box.x2
  /\ \E p \in V : p.y = box.y2
  /\ ~Below(box.x2, box.x1)
  /\ ~Below(box.y2, box.y1)

TriangleOnly == [isArray |-> TRUE, list |-> <<[label |-> NoLabel, points |-> [isArray |-> TRUE, list |-> Triangle]]>>]

\* C16: when a candidate shape has a point with two finite coordinates, the
\* call returns the box of the minimum and maximum x and y over the numeric
\* vertices of the candidate shapes; the triangle (0,0), (10,0), (0,10) alone
\* gives {x1: 0, y1: 0, x2: 10, y2: 10}.
C16_BoxIsMinMax ==
  (/\ bboxPc = "returned"
   /\ bboxShapes.isArray
   /\ \E p \in NumericVertices(Candidates(bboxShapes.list)) : IsFinite(p))
  => /\ Spans(bboxResult, NumericVertices(Candidates(bboxShapes.list)))
     /\ bboxShapes = TriangleOnly => bboxResult = Box(Num(0), Num(0), Num(10), Num(10))

\* ------------------------------------------------------------------ C17
\* The labels of Labels that contain lesion, roi, tumor or target, whatever
\* the case of their letters.
KeywordLabels == {TumorLesion, RoiUpper}

\* The shapes whose points count: the ones with a keyword label, or all.
UsedShapes(list) ==
  IF \E k \in 1..Len(list) : list[k].label \in KeywordLabels
    THEN SelectSeq(list, LAMBDA shape : shape.label \in KeywordLabels)
    ELSE list

\* C17: when a shape's label contains a keyword, the box is the box of the
\* points of the shapes with such labels alone; when none does, it is the
\* box of the points of all shapes.
C17_KeywordFilter ==
  (bboxPc = "returned" /\ bboxShapes.isArray /\ Len(bboxShapes.list) > 0)
  => /\ bboxResult.kind = "box"
          => Spans(bboxResult, NumericVertices(UsedShapes(bboxShapes.list)))
     /\ bboxResult = Null
          => ~\E p \in NumericVertices(UsedShapes(bboxShapes.list)) : IsFinite(p)

C17_Witness ==
  /\ bboxPc = "returned"
  /\ bboxShapes = [isArray |-> TRUE,
                   list |-> <<[label |-> Liver, points |-> [isArray |-> TRUE, list |-> Triangle]],
                              [label |-> TumorLesion,
                               points |-> [isArray |-> TRUE, list |-> <<Point(Num(3), Num(4))>>]]>>]
  /\ bboxResult = Box(Num(3), Num(4), Num(3), Num(4))

\* ------------------------------------------------------------------ C18
\* C18: the call returns null for an empty list and for a value that is not
\* an array, returns null when no shape has a numeric point, and never
\* returns a box with an infinite coordinate.
C18_NullWithoutPoints ==
  bboxPc = "returned"
  => /\ (~bboxShapes.isArray \/ Len(bboxShapes.list) = 0) => bboxResult = Null
     /\ NumericVertices(bboxShapes.list) = {} => bboxResult = Null
     /\ bboxResult.kind = "box"
          => \A c \in {bboxResult.x1, bboxResult.y1, bboxResult.x2, bboxResult.y2} :
                c.kind = "number"

\* ------------------------------------------------------------------ C19
\* C19: on the binary mask, radius and colour of a resolved call, the raster
\* path's extraction gives the distance field and the image (pixels and
\* alpha) of the annotation path's, and the older raster implementation
\* paints the same set of pixels.
C19_PathsAgree ==
  pc = "resolved"
  => /\ distances = RasterDistances(binaryMask, imageWidth, imageHeight, radius)
     /\ ringImageData = RasterPaint(distances, radius, color)
     /\ \A older \in {OldPaint(binaryMask, imageWidth, imageHeight, radius, color)} :
           {i \in Pixels : older[i] # Transparent} = Painted

C19_Witness ==
  /\ pc = "resolved"
  /\ source = "annotation"
  /\ radius = MaxRadius
  /\ \E i \in Painted : distances[i] = 1
  /\ \E i \in Painted : distances[i] = radius /\ ringImageData[i][4] < color[4]

\* ------------------------------------------------------------------ C20
\* C20: in every state of the viewer a ring overlay is set only while the
\* ring toggle is on; a generation that completes after the toggle was
\* switched off makes no ring appear.
C20_RingImpliesToggle ==
  ringImageUrl # "none" => showRing

\* ------------------------------------------------------------------ C21
\* C21: once another patient is viewed, the completion of the annotation load
\* of the patient viewed before (here always the catch of its aborted fetch)
\* leaves the bounding box as it was: it installs no box of the former
\* patient and clears no box loaded for the present one.
C21_StaleLoadIgnored ==
  (hist.op \in {"loaded", "loadFailed", "loadAborted"} /\ hist.patient # selectedPatient)
  => /\ annotationBbox = hist.bboxBefore
     /\ annotationBbox \in {"none", selectedPatient}

C21_Witness ==
  /\ hist.op = "loadAborted"
  /\ hist.patient = "A"
  /\ ~hist.live
  /\ selectedPatient = "B"
  /\ loadPending

\* ------------------------------------------------------------------ C22
\* C22: with a patient selected, the concept state shown is the state saved
\* for that patient in the per-patient map, after every selection, slider
\* change and reset.
C22_ShownIsSaved ==
  selectedPatient # "none" => conceptState = patientConceptStates[selectedPatient]

\* ------------------------------------------------------------------ C23
\* C23: every probability calculateDiagnosis returns lies in [0, 100], the
\* T-stage probabilities sum to 100 and the N-stage probabilities sum to 100.
C23_ProbabilitiesSumTo100 ==
  diagPc = "returned"
  => /\ \A v \in {diagResult.t4, diagResult.t3, diagResult.t2, diagResult.n3,
                   diagResult.n2, diagResult.n1, diagResult.n0} :
           v >= 0 /\ v <= 100 * Milli
     /\ diagResult.t4 + diagResult.t3 + diagResult.t2 = 100 * Milli
     /\ diagResult.n3 + diagResult.n2 + diagResult.n1 + diagResult.n0 = 100 * Milli

\* ------------------------------------------------------------------ C24
\* T1/T2 < T3 < T4a
TRank(stage) == IF stage = "T4a" THEN 3 ELSE IF stage = "T3" THEN 2 ELSE 1

\* The states that differ from state in one risk input, raised: a higher
\* Ki-67 or PD-1, an invasion set, a worse differentiation.
Riskier(state) ==
  {[state EXCEPT !.c1 = v] : v \in {l \in ConceptLevels : l > state.c1}}
  \cup {[state EXCEPT !.c3 = v] : v \in {l \in ConceptLevels : l > state.c3}}
  \cup {[state EXCEPT !.differentiation = v] :
          v \in {g \in 1..4 : g > state.differentiation}}
  \cup {[state EXCEPT !.vascularInvasion = 1], [state EXCEPT !.neuralInvasion = 1]}

\* C24: raising one risk input of the state, all else fixed, never lowers
\* the predicted T stage.
C24_TStageMonotone ==
  diagPc = "returned"
  => \A worse \in Riskier(diagState) :
        TRank(CalculateDiagnosis(worse).tStage) >= TRank(diagResult.tStage)

\* ------------------------------------------------------------------ C25
\* C25: each of N0, N1, N2 and N3 is the nStage of some concept state.
\* The concept states over every value of the inputs of the N score: CPS
\* and FoxP3 in 0..100, CD4 above CD8 or not, each Lauren type.
NScoreInputs ==
  {[DEFAULT_STATE EXCEPT !.c2 = in[1], !.c4 = in[2], !.c6 = in[3], !.lauren = in[4]] :
     in \in (0..100) \X (0..100) \X {DEFAULT_STATE.c6, DEFAULT_STATE.c7} \X {0, 1, 4}}

C25_EveryNStageReturned ==
  diagPc = "returned"
  => \A stage \in {"N0", "N1", "N2", "N3"} :
        \E state \in NScoreInputs : CalculateDiagnosis(state).nStage = stage

\* ------------------------------------------------------------------ C26
\* The strings of ValueTexts that are missing, blank or not a number.
DefaultingTexts ==
  {NoText, Text(<<>>), Text(Blank), Text(<<"a", "b", "c">>), Text(<<"%">>)}

WellFormed(state) ==
  /\ \A v \in {state.c1, state.c2, state.c3, state.c4, state.c5, state.c6, state.c7} :
        v >= 0 /\ v <= 100
  /\ state.differentiation \in 1..5
  /\ state.lauren \in {0, 1, 4}
  /\ state.vascularInvasion \in {0, 1}
  /\ state.neuralInvasion \in {0, 1}

\* C26: getConceptStateFromPatient returns a well-formed state; DEFAULT_STATE
\* for a patient without concept features; and for each of c1..c7 whose
\* field is missing, blank or not a number, the value of DEFAULT_STATE, a
\* readable field giving its number, limited to 0..100.
C26_ConceptStateWellFormed ==
  parsePc = "returned"
  => /\ WellFormed(parseResult)
     /\ ~parsePatient.hasFeatures => parseResult = DEFAULT_STATE
     /\ parsePatient.hasFeatures
          => /\ parsePatient.features.ki67 \in DefaultingTexts
                  => parseResult.c1 = DEFAULT_STATE.c1
             /\ parsePatient.features.cps \in DefaultingTexts
                  => parseResult.c2 = DEFAULT_STATE.c2
             /\ parseResult.c3 = DEFAULT_STATE.c3
             /\ parseResult.c4 = DEFAULT_STATE.c4
             /\ parseResult.c5 = DEFAULT_STATE.c5
             /\ parseResult.c6 = DEFAULT_STATE.c6
             /\ parseResult.c7 = DEFAULT_STATE.c7
             /\ parsePatient.features.differentiation = NoText
                  => parseResult.differentiation = DEFAULT_STATE.differentiation
             /\ parsePatient.features.lauren = NoText
                  => parseResult.lauren = DEFAULT_STATE.lauren
             /\ parsePatient.features.vascular = NoText
                  => parseResult.vascularInvasion = DEFAULT_STATE.vascularInvasion
             /\ parseResult.neuralInvasion = DEFAULT_STATE.neuralInvasion
             /\ parsePatient.features.ki67 = Text(SixtyPercent) => parseResult.c1 = 60
             /\ parsePatient.features.ki67 = Text(<<" ", "4", "5", " ", "%", " ">>)
                  => parseResult.c1 = 45
             /\ parsePatient.features.ki67 = Text(<<"1", "5", "0">>) => parseResult.c1 = 100
             /\ parsePatient.features.ki67 = Text(<<"-", "5">>) => parseResult.c1 = 0
             /\ parsePatient.features.ki67 = Text(<<"1", "2", "a", "b", "c">>)
                  => parseResult.c1 = 12

C26_Witness ==
  /\ parsePc = "returned"
  /\ parsePatient.hasFeatures
  /\ parsePatient.features.ki67 = Text(<<"a", "b", "c">>)
  /\ parsePatient.features.cps = Text(Blank)
  /\ parseResult.c1 = DEFAULT_STATE.c1
  /\ parseResult.c2 = DEFAULT_STATE.c2

\* ------------------------------------------------------------------ C27
\* No keyword of a branch of parseDifferentiation occurs in the string.
Unrecognised(c) ==
  \A keyword \in {<<"1">>, <<"2">>, <<"3">>, <<"4">>,
                  <<"w", "e", "l", "l">>,
                  <<"m", "o", "d">>,
                  <<"p", "o", "o", "r">>,
                  <<"u9ad8", "u5206", "u5316">>,
                  <<"u4e2d", "u5206", "u5316">>,
                  <<"u4e2d", "-", "u4f4e">>,
                  <<"u4f4e", "u5206", "u5316">>} :
     ~Includes(c, keyword)

\* C27: a differentiation string with 'mod-poor' gives grade 3, one with
\* 'poor' and without 'mod' grade 4, one with 'mod' and without 'poor'
\* grade 2, one with 'well' grade 1, an unrecognised one grade 5.
C27_DifferentiationGrades ==
  (/\ parsePc = "returned"
   /\ parsePatient.hasFeatures
   /\ parsePatient.features.differentiation.defined
   /\ parsePatient.features.differentiation.chars # <<>>)
  => \A c \in {ToLowerCase(parsePatient.features.differentiation.chars)} :
        /\ Includes(c, <<"m", "o", "d", "-", "p", "o", "o", "r">>)
             => parseResult.differentiation = 3
        /\ Includes(c, <<"p", "o", "o", "r">>) /\ ~Includes(c, <<"m", "o", "d">>)
             => parseResult.differentiation = 4
        /\ Includes(c, <<"m", "o", "d">>) /\ ~Includes(c, <<"p", "o", "o", "r">>)
             => parseResult.differentiation = 2
        /\ Includes(c, <<"w", "e", "l", "l">>) => parseResult.differentiation = 1
        /\ Unrecognised(c) => parseResult.differentiation = 5

\* C28: the image API reads no file outside the dataset directories. When a
\* request has been answered, a file that was read is a direct child (its
\* last component holds no separator and is not "..") of the directory that
\* the request's type names in the dataset its dataset segment, cohort and
\* treatment resolve to; and a request whose type is unknown or that has
\* other than 2 or 3 segments is answered with status 400 and no file read.
RequestType ==
  IF Len(apiRequest.path) = 3 THEN apiRequest.path[2]
  ELSE IF Len(apiRequest.path) = 2 THEN apiRequest.path[1]
  ELSE <<>>

ResolvedRoot ==
  LET cropped == Len(apiRequest.path) = 3 /\ apiRequest.path[1] = Word("cropped")
      nac == apiRequest.treatment = "nac"
      year == IF apiRequest.cohort \in {"2019", "2024"} THEN apiRequest.cohort
              ELSE "2025"
      name == IF year = "2025"
                THEN (IF cropped THEN <<Word("Gastric_Cancer_Dataset_Cropped")>>
                      ELSE <<Word("Gastric_Cancer_Dataset")>>)
              ELSE IF nac
                THEN (IF year = "2019" THEN <<Word("Gastric_Cancer_Dataset_2019_nac")>>
                      ELSE <<Word("Gastric_Cancer_Dataset_2024_nac")>>)
              ELSE IF year = "2019"
                THEN (IF cropped THEN <<Word("2019_direct_surgery"), Word("Cropped")>>
                      ELSE <<Word("Gastric_Cancer_Dataset_2019")>>)
              ELSE (IF cropped THEN <<Word("Gastric_Cancer_Dataset_2024_Cropped")>>
                    ELSE <<Word("Gastric_Cancer_Dataset_2024")>>)
  IN  CwdParent \o name

KnownTypes ==
  {Word("images"), Word("overlays"), Word("lymph_node_analysis"), Word("annotations")}

C28_ReadsOnlyDatasetFiles ==
  apiPc = "returned" =>
    /\ apiResponse.read # NoPath =>
         LET child == apiResponse.read[Len(apiResponse.read)]
         IN  /\ RequestType \in KnownTypes
             /\ apiResponse.read = ResolvedRoot \o <<RequestType, child>>
             /\ child # <<>>
             /\ child # Word("..")
             /\ \A k \in 1..Len(child) : child[k] # "/"
    /\ (Len(apiRequest.path) \notin {2, 3} \/ RequestType \notin KnownTypes) =>
         /\ apiResponse.status = 400
         /\ apiResponse.read = NoPath

\* A request for "../a" among the cropped 2019 images was answered with the
\* file "a" of that directory.
C28_Witness ==
  /\ apiPc = "returned"
  /\ apiRequest.path = <<Word("cropped"), Word("images"), <<"..", "/", "a">>>>
  /\ apiRequest.cohort = "2019"
  /\ apiRequest.treatment = ""
  /\ apiResponse.status = 200
  /\ apiResponse.read = DATASET_2019_CROPPED_ROOT \o <<Word("images"), Word("a")>>

\* C29: after any sequence of wheel zooms, ROI-zoom toggles and resets the
\* zoom scale of the viewer is at least 1 and at most 5 (1000 to 5000
\* thousandths).
C29_ScaleWithinLimits ==
  Milli <= scale /\ scale <= 5 * Milli

====
